---- MODULE Spec2Model ----
(***************************************************************************)
(* Verification model of the TCP-Socket market-data feed handler.          *)
(*                                                                         *)
(* The wire is modelled at the granularity of one stream unit per header   *)
(* field: the 13-byte header (4-byte length, 1-byte type, 8-byte sequence) *)
(* is three units, and payload sizes are scaled down in proportion, so     *)
(* that partial reads, ring-buffer wrap-around and length mismatches all   *)
(* occur inside small buffers.                                             *)
(***************************************************************************)
EXTENDS Integers, Sequences, FiniteSets, TLC

VARIABLES
  cm,            \* ConnectionManagerV2 fields plus the process's open descriptors
  pc,            \* position of SnapshotFeedHandler::run
  should_stop_,  \* std::atomic<bool> should_stop_
  tracker,       \* SequenceTracker fields
  rb,            \* RingBuffer fields
  book,          \* OrderBook fields
  stats_,        \* FeedStatsV2 fields
  wire,          \* bytes in flight on the current connection, not yet received
  sent,          \* frames the server wrote on the current connection
  delivered,     \* frames the decoder handed to per-type processing
  nsent,         \* number of frames the server has written so far
  oob,           \* TRUE once a read went past the end of the message buffer
  feed_handler,  \* net::FeedHandler fields and the position of its caller
  binary_reader_,\* net::BinaryProtocolReader fields and the reader thread's position
  processor_,    \* net::TickProcessor fields and the processor thread's position
  queue_,        \* SPSCQueue<Tick> between the reader and the processor
  pushed,        \* number of ticks queue_.push has accepted
  spsc_test,     \* a queue between the producer and consumer of the queue tests
  ring_io,       \* what the caller of a RingBuffer alone has written and read
  tracker_io,    \* the last call made on a SequenceTracker alone
  gap_tracker_,  \* SequenceGapTracker fields
  gap_io,        \* what the caller of a SequenceGapTracker has passed to it
  udp_handler,   \* UDPFeedHandler fields and the position of run()
  udp_net,       \* datagrams and control-channel bytes in flight, and the server
  book_io,       \* the last call made on an OrderBook alone
  spmc           \* the SPMC feed handler: reader, consumers, queue, connection

cmVars  == <<cm>>
hVars   == <<pc, should_stop_, tracker, rb, book, stats_, delivered, oob>>
netVars == <<wire, sent, nsent>>
pipeVars == <<feed_handler, binary_reader_, processor_, queue_, pushed>>
sidecarVars == <<gap_tracker_, gap_io, udp_handler, udp_net, book_io, spmc>>
unitVars == <<spsc_test, ring_io, tracker_io, sidecarVars>>
vars    == <<cm, pc, should_stop_, tracker, rb, book, stats_, wire, sent,
             delivered, nsent, oob, feed_handler, binary_reader_, processor_,
             queue_, pushed, spsc_test, ring_io, tracker_io, gap_tracker_,
             gap_io, udp_handler, udp_net, book_io, spmc>>

Min(a, b) == IF a < b THEN a ELSE b

(***************************************************************************)
(* Bounds of the model                                                     *)
(***************************************************************************)
MaxAttempts == 6     \* consecutive failed reconnects explored
MaxFds      == 5     \* descriptors the process may hold open at once

(***************************************************************************)
(* ConnectionManagerV2 (include/connection_manager.hpp)                    *)
(***************************************************************************)
DISCONNECTED     == "DISCONNECTED"
CONNECTING       == "CONNECTING"
CONNECTED        == "CONNECTED"
SNAPSHOT_REQUEST == "SNAPSHOT_REQUEST"
SNAPSHOT_REPLAY  == "SNAPSHOT_REPLAY"
INCREMENTAL      == "INCREMENTAL"
RECONNECTING     == "RECONNECTING"

State == {DISCONNECTED, CONNECTING, CONNECTED, SNAPSHOT_REQUEST,
          SNAPSHOT_REPLAY, INCREMENTAL, RECONNECTING}

max_backoff_ == 30
heartbeat_timeout_ == 2

\* The constructor: DISCONNECTED, no socket, backoff 1 s, last_message_time_
\* now.  The steady clock is kept as last_message_age, the whole seconds
\* between last_message_time_ and now, which stops counting at
\* heartbeat_timeout_.  requests_on_socket counts the snapshot requests
\* that send() has accepted on the socket in sockfd_.
ConnectionManagerV2 ==
  [state_ |-> DISCONNECTED, sockfd_ |-> -1, reconnect_attempts_ |-> 0,
   current_backoff_ |-> 1, snapshot_requested_ |-> FALSE, open |-> {},
   last_message_age |-> 0, requests_on_socket |-> 0]

\* socket_connect: on success the lowest descriptor not in use, else -1.
create_and_connect(c, ok) ==
  IF ok THEN CHOOSE fd \in 3..(3 + MaxFds) :
               fd \notin c.open /\ \A g \in 3..(fd - 1) : g \in c.open
        ELSE -1

\* The age of last_message_time_ after a sleep of so many seconds.
sleep_for(age, seconds) == Min(age + seconds, heartbeat_timeout_)

connect(c, ok) ==
  IF c.state_ \in {CONNECTED, INCREMENTAL} THEN c
  ELSE LET fd == create_and_connect(c, ok) IN
       IF fd >= 0
       THEN [c EXCEPT !.state_ = CONNECTED, !.sockfd_ = fd,
                      !.open = @ \cup {fd},
                      !.reconnect_attempts_ = 0,
                      !.current_backoff_ = 1,
                      !.last_message_age = 0,
                      !.requests_on_socket = 0,
                      !.snapshot_requested_ = FALSE]
       ELSE [c EXCEPT !.state_ = DISCONNECTED, !.sockfd_ = fd]

\* The value connect() returns.
connect_returns(c, ok) == c.state_ \in {CONNECTED, INCREMENTAL} \/ ok

disconnect(c) ==
  LET closed == IF c.sockfd_ >= 0
                THEN [c EXCEPT !.open = @ \ {c.sockfd_}, !.sockfd_ = -1]
                ELSE c
  IN IF closed.state_ # RECONNECTING
     THEN [closed EXCEPT !.state_ = DISCONNECTED]
     ELSE closed

\* A reconnect that doubles the backoff without the cap.
reconnect_uncapped(c, ok) ==
  LET d == disconnect(c)
      e == [d EXCEPT !.reconnect_attempts_ = @ + 1,
                     !.state_ = RECONNECTING,
                     !.last_message_age = sleep_for(@, d.current_backoff_),
                     !.current_backoff_ = @ * 2]
  IN connect(e, ok)

reconnect(c, ok) ==
  LET d == disconnect(c)
      e == [d EXCEPT !.reconnect_attempts_ = @ + 1,
                     !.state_ = RECONNECTING,
                     !.last_message_age = sleep_for(@, d.current_backoff_),
                     !.current_backoff_ = Min(@ * 2, max_backoff_)]
  IN connect(e, ok)

reconnect_returns(c, ok) == ok

\* The seconds reconnect() sleeps before it connects: sleep_for is called
\* with current_backoff_ before the doubling.
reconnect_sleeps(c) == disconnect(c).current_backoff_

transition_to_snapshot_request(c) ==
  IF c.state_ = CONNECTED
  THEN [c EXCEPT !.state_ = SNAPSHOT_REQUEST, !.snapshot_requested_ = FALSE]
  ELSE c

mark_snapshot_requested(c) == [c EXCEPT !.snapshot_requested_ = TRUE]

transition_to_snapshot_replay(c) ==
  IF c.state_ = SNAPSHOT_REQUEST THEN [c EXCEPT !.state_ = SNAPSHOT_REPLAY] ELSE c

transition_to_incremental(c) ==
  IF c.state_ = SNAPSHOT_REPLAY THEN [c EXCEPT !.state_ = INCREMENTAL] ELSE c

needs_snapshot_request(c) == c.state_ = SNAPSHOT_REQUEST /\ ~c.snapshot_requested_

is_connected(c) ==
  c.state_ \in {CONNECTED, SNAPSHOT_REQUEST, SNAPSHOT_REPLAY, INCREMENTAL}

is_incremental_mode(c) == c.state_ = INCREMENTAL

update_last_message_time(c) == [c EXCEPT !.last_message_age = 0]

\* An is_heartbeat_timeout that wants more than heartbeat_timeout_ seconds.
is_heartbeat_timeout_strictly_later(c) == c.last_message_age > heartbeat_timeout_

is_heartbeat_timeout(c) == c.last_message_age >= heartbeat_timeout_

\* One second passes on the steady clock.
steady_clock_second(c) ==
  [c EXCEPT !.last_message_age = sleep_for(@, 1)]

\* A new connection can be attempted within the bounds of the model.
CanConnect(c) == Cardinality(c.open) < MaxFds
CanReconnect(c) == c.reconnect_attempts_ < MaxAttempts

(***************************************************************************)
(* The connection manager driven directly through its public interface     *)
(***************************************************************************)
OpConnect ==
  /\ CanConnect(cm)
  /\ \E ok \in BOOLEAN : cm' = connect(cm, ok)
  /\ UNCHANGED <<hVars, netVars, pipeVars, unitVars>>

OpReconnect ==
  /\ CanReconnect(cm)
  /\ \E ok \in BOOLEAN : cm' = reconnect(cm, ok)
  /\ UNCHANGED <<hVars, netVars, pipeVars, unitVars>>

OpDisconnect ==
  /\ cm' = disconnect(cm)
  /\ UNCHANGED <<hVars, netVars, pipeVars, unitVars>>

OpTransitionToSnapshotRequest ==
  /\ cm' = transition_to_snapshot_request(cm)
  /\ UNCHANGED <<hVars, netVars, pipeVars, unitVars>>

OpMarkSnapshotRequested ==
  /\ cm' = mark_snapshot_requested(cm)
  /\ UNCHANGED <<hVars, netVars, pipeVars, unitVars>>

OpTransitionToSnapshotReplay ==
  /\ cm' = transition_to_snapshot_replay(cm)
  /\ UNCHANGED <<hVars, netVars, pipeVars, unitVars>>

OpTransitionToIncremental ==
  /\ cm' = transition_to_incremental(cm)
  /\ UNCHANGED <<hVars, netVars, pipeVars, unitVars>>

OpUpdateLastMessageTime ==
  /\ cm' = update_last_message_time(cm)
  /\ UNCHANGED <<hVars, netVars, pipeVars, unitVars>>

\* A second passes: between two calls of the manager's interface, or while
\* the handler waits in recv.  The clock is read at the head of run()'s loop
\* only, and the seconds reconnect() sleeps are counted in reconnect.
Tick ==
  /\ pc \in {"start", "read"}
  /\ cm.last_message_age < heartbeat_timeout_
  /\ cm' = steady_clock_second(cm)
  /\ UNCHANGED <<hVars, netVars, pipeVars, unitVars>>

(***************************************************************************)
(* RingBuffer (include/ring_buffer.hpp)                                    *)
(***************************************************************************)
BUFFER_SIZE == 9    \* 1 MiB in the source; scaled so that the ring wraps

RingBuffer ==
  [buffer_ |-> [i \in 0..(BUFFER_SIZE - 1) |-> 0],
   read_pos_ |-> 0, write_pos_ |-> 0, size_ |-> 0]

\* get_write_ptr without the byte kept back when read_pos_ is 0.
get_write_ptr_no_reserved_byte(r) ==
  IF r.write_pos_ >= r.read_pos_
  THEN BUFFER_SIZE - r.write_pos_
  ELSE r.read_pos_ - r.write_pos_ - 1

\* The length get_write_ptr returns; the pointer is buffer_ + write_pos_.
get_write_ptr(r) ==
  IF r.write_pos_ >= r.read_pos_
  THEN LET space == BUFFER_SIZE - r.write_pos_ IN
       IF r.read_pos_ = 0 /\ space > 0 THEN space - 1 ELSE space
  ELSE r.read_pos_ - r.write_pos_ - 1

\* recv() storing the bytes at the write pointer.
store(r, bytes) ==
  [r EXCEPT !.buffer_ =
     [i \in 0..(BUFFER_SIZE - 1) |->
        IF i >= r.write_pos_ /\ i < r.write_pos_ + Len(bytes)
        THEN bytes[i - r.write_pos_ + 1] ELSE @[i]]]

\* commit_write that moves write_pos_ and forgets size_.
commit_write_without_size(r, n) ==
  [r EXCEPT !.write_pos_ = (@ + n) % BUFFER_SIZE]

commit_write(r, n) ==
  [r EXCEPT !.write_pos_ = (@ + n) % BUFFER_SIZE, !.size_ = @ + n]

available(r) == r.size_

free_space(r) == BUFFER_SIZE - r.size_ - 1

\* The bytes of the string_view peek returns: none when fewer than n bytes
\* are readable, and none when the n bytes wrap past the end of the storage.
peek(r, n) ==
  IF n > r.size_ THEN <<>>
  ELSE IF n <= BUFFER_SIZE - r.read_pos_
       THEN [i \in 1..n |-> r.buffer_[r.read_pos_ + i - 1]]
       ELSE <<>>

\* peek_bytes whose second memcpy starts one byte too far into the storage.
peek_bytes_wrap_off_by_one(r, n) ==
  LET contiguous == BUFFER_SIZE - r.read_pos_ IN
  [i \in 1..n |-> IF i <= contiguous
                  THEN r.buffer_[r.read_pos_ + i - 1]
                  ELSE r.buffer_[(i - contiguous) % BUFFER_SIZE]]

\* The bytes peek_bytes copies out; the caller checks n <= size_ first.
peek_bytes(r, n) ==
  LET contiguous == BUFFER_SIZE - r.read_pos_ IN
  [i \in 1..n |-> IF i <= contiguous
                  THEN r.buffer_[r.read_pos_ + i - 1]
                  ELSE r.buffer_[i - contiguous - 1]]

peek_bytes_returns(r, n) == ~(n > r.size_)

\* consume without the clamp of n to size_.
consume_unclamped(r, n) ==
  [r EXCEPT !.read_pos_ = (@ + n) % BUFFER_SIZE, !.size_ = @ - n]

consume(r, n) ==
  LET m == IF n > r.size_ THEN r.size_ ELSE n IN
  [r EXCEPT !.read_pos_ = (@ + m) % BUFFER_SIZE, !.size_ = @ - m]

read_bytes_returns(r, n) == peek_bytes_returns(r, n)
\* read_bytes that copies the bytes out and leaves them in the buffer.
read_bytes_without_consume(r, n) == r
read_bytes(r, n) == IF peek_bytes_returns(r, n) THEN consume(r, n) ELSE r

(***************************************************************************)
(* SequenceTracker (include/sequence_tracker.hpp)                          *)
(***************************************************************************)
SeqBits == 4         \* width of a sequence number in the model (64 in the source)
UINT64_MAX == 2^SeqBits - 1

SequenceTracker == [last_sequence_ |-> UINT64_MAX, gaps_detected_ |-> 0]

process_sequence(t, sequence) ==
  IF t.last_sequence_ = UINT64_MAX
  THEN [t EXCEPT !.last_sequence_ = sequence]
  ELSE LET expected == (t.last_sequence_ + 1) % (UINT64_MAX + 1) IN
       IF sequence = expected THEN [t EXCEPT !.last_sequence_ = sequence]
       ELSE IF sequence > expected
            THEN [t EXCEPT !.gaps_detected_ = @ + 1, !.last_sequence_ = sequence]
            ELSE t

process_sequence_returns(t, sequence) ==
  IF t.last_sequence_ = UINT64_MAX THEN TRUE
  ELSE sequence = (t.last_sequence_ + 1) % (UINT64_MAX + 1)

reset_and_clear_gaps(t) == [last_sequence_ |-> UINT64_MAX, gaps_detected_ |-> 0]
reset(t) == [t EXCEPT !.last_sequence_ = UINT64_MAX]

has_received_message(t) == t.last_sequence_ # UINT64_MAX

\* The optional last_sequence() returns: <<>> for std::nullopt.
last_sequence(t) ==
  IF t.last_sequence_ = UINT64_MAX THEN <<>> ELSE <<t.last_sequence_>>

(***************************************************************************)
(* SequenceGapTracker (include/udp_protocol.hpp)                           *)
(***************************************************************************)
SequenceGapTracker ==
  [last_sequence_ |-> 0, first_message_ |-> TRUE, total_gaps_ |-> 0,
   gaps_ |-> {}]

\* SequenceGapTracker::process_sequence: the tracker after the call.
gap_process_sequence(t, sequence) ==
  IF t.first_message_
  THEN [t EXCEPT !.last_sequence_ = sequence, !.first_message_ = FALSE]
  ELSE LET expected == (t.last_sequence_ + 1) % (UINT64_MAX + 1) IN
       IF sequence = expected
       THEN [t EXCEPT !.last_sequence_ = sequence, !.gaps_ = @ \ {sequence}]
       ELSE IF sequence > expected
            THEN [t EXCEPT !.gaps_ = @ \cup (expected..(sequence - 1)),
                           !.total_gaps_ = @ + (sequence - expected),
                           !.last_sequence_ = sequence]
            ELSE [t EXCEPT !.gaps_ = @ \ {sequence}]

\* What the call returns.
gap_process_sequence_returns(t, sequence) ==
  IF t.first_message_ THEN TRUE
  ELSE LET expected == (t.last_sequence_ + 1) % (UINT64_MAX + 1) IN
       IF sequence = expected THEN TRUE
       ELSE IF sequence > expected THEN FALSE
            ELSE sequence \in t.gaps_

\* The elements of a std::set in iteration order.
RECURSIVE in_order(_)
in_order(S) ==
  IF S = {} THEN <<>>
  ELSE LET least == CHOOSE x \in S : \A y \in S : x <= y
       IN <<least>> \o in_order(S \ {least})

\* The loop of get_gap_ranges from position i of the ordered set, with the
\* range range_start..range_end open and ranges saved so far.
RECURSIVE compress_ranges(_, _, _, _, _)
compress_ranges(its, i, range_start, range_end, ranges) ==
  IF i > Len(its) THEN Append(ranges, <<range_start, range_end>>)
  ELSE IF its[i] = range_end + 1
       THEN compress_ranges(its, i + 1, range_start, its[i], ranges)
       ELSE compress_ranges(its, i + 1, its[i], its[i],
                            Append(ranges, <<range_start, range_end>>))

get_gap_ranges(t) ==
  IF t.gaps_ = {} THEN <<>>
  ELSE LET its == in_order(t.gaps_)
       IN compress_ranges(its, 2, its[1], its[1], <<>>)

active_gaps(t) == Cardinality(t.gaps_)

gap_reset(t) == SequenceGapTracker

(***************************************************************************)
(* OrderBook (include/order_book.hpp): two maps price -> quantity          *)
(***************************************************************************)
OrderBook == [bids_ |-> <<>>, asks_ |-> <<>>]

map_set(m, k, v) == [p \in (DOMAIN m) \cup {k} |-> IF p = k THEN v ELSE m[p]]
map_erase(m, k) == [p \in (DOMAIN m) \ {k} |-> m[p]]

clear(b) == [bids_ |-> <<>>, asks_ |-> <<>>]

\* The insertion loop of load_snapshot over one side: levels with quantity > 0
\* are stored in order, so the last such level of a price is the one kept.
load_levels(levels) ==
  LET kept == {i \in 1..Len(levels) : levels[i].quantity > 0}
      last(p) == CHOOSE i \in kept :
                   /\ levels[i].price = p
                   /\ \A j \in kept : levels[j].price = p => j <= i
  IN [p \in {levels[i].price : i \in kept} |-> levels[last(p)].quantity]

\* A load_snapshot that does not call clear() first.
load_snapshot_over_existing(b, bids, asks) ==
  LET nb == load_levels(bids)
      na == load_levels(asks)
  IN [bids_ |-> [p \in DOMAIN b.bids_ \cup DOMAIN nb |->
                   IF p \in DOMAIN nb THEN nb[p] ELSE b.bids_[p]],
      asks_ |-> [p \in DOMAIN b.asks_ \cup DOMAIN na |->
                   IF p \in DOMAIN na THEN na[p] ELSE b.asks_[p]]]

load_snapshot(b, bids, asks) ==
  [bids_ |-> load_levels(bids), asks_ |-> load_levels(asks)]

\* An apply_update that stores a zero quantity instead of erasing the level.
side_update_stores_zero(m, price, quantity) ==
  IF quantity >= 0 THEN map_set(m, price, quantity) ELSE m

side_update(m, price, quantity) ==
  IF quantity = 0 THEN map_erase(m, price)
  ELSE IF quantity > 0 THEN map_set(m, price, quantity)
  ELSE m

apply_update(b, side, price, quantity) ==
  IF side = 0 THEN [b EXCEPT !.bids_ = side_update(@, price, quantity)]
  ELSE [b EXCEPT !.asks_ = side_update(@, price, quantity)]

\* The first and the last key of a map, which iterates in ascending order.
begin(m) == CHOOSE p \in DOMAIN m : \A q \in DOMAIN m : p <= q
rbegin(m) == CHOOSE p \in DOMAIN m : \A q \in DOMAIN m : q <= p

\* A get_best_bid that takes the first level of the map.
get_best_bid_from_begin(b) ==
  IF DOMAIN b.bids_ = {} THEN [returns |-> FALSE]
  ELSE [returns |-> TRUE, price_out |-> begin(b.bids_),
        quantity_out |-> b.bids_[begin(b.bids_)]]

\* The value returned and, when it is true, the two out-parameters.
get_best_bid(b) ==
  IF DOMAIN b.bids_ = {} THEN [returns |-> FALSE]
  ELSE [returns |-> TRUE, price_out |-> rbegin(b.bids_),
        quantity_out |-> b.bids_[rbegin(b.bids_)]]

get_best_ask(b) ==
  IF DOMAIN b.asks_ = {} THEN [returns |-> FALSE]
  ELSE [returns |-> TRUE, price_out |-> begin(b.asks_),
        quantity_out |-> b.asks_[begin(b.asks_)]]

bid_depth(b) == Cardinality(DOMAIN b.bids_)
ask_depth(b) == Cardinality(DOMAIN b.asks_)

(***************************************************************************)
(* Wire codec: header and payloads, one stream unit per field              *)
(***************************************************************************)
MessageType_TICK              == 1
MessageType_ORDER_BOOK_UPDATE == 2
MessageType_SNAPSHOT_REQUEST  == 16
MessageType_SNAPSHOT_RESPONSE == 17
MessageType_HEARTBEAT         == 255

RecognisedTypes == {MessageType_TICK, MessageType_ORDER_BOOK_UPDATE, MessageType_SNAPSHOT_REQUEST,
                    MessageType_SNAPSHOT_RESPONSE, MessageType_HEARTBEAT}

HEADER_SIZE == 3           \* length, type, sequence (13 bytes in the source)
TickPayloadSize == 4       \* timestamp, symbol, price, volume (20 bytes)
HeartbeatPayloadSize == 1  \* timestamp (8 bytes)
UpdatePayloadSize == 4     \* symbol, side, price, quantity (17 bytes)
SnapshotFixedSize == 3     \* symbol, n_bids, n_asks (6 bytes); then the levels
LevelSize == 2             \* price, quantity (12 bytes)

serialize_header(type, sequence, payload_size) == <<payload_size, type, sequence>>

deserialize_header(data) ==
  [length |-> data[1], type |-> data[2],
   sequence |-> data[3] % (UINT64_MAX + 1)]

\* Field i of a payload; a read past the end of the copy yields whatever the
\* adjacent memory holds (g).
Field(payload, i, g) == IF i <= Len(payload) THEN payload[i] ELSE g

deserialize_tick_payload(payload, g) ==
  [timestamp |-> Field(payload, 1, g), symbol |-> Field(payload, 2, g),
   price |-> Field(payload, 3, g), volume |-> Field(payload, 4, g)]

deserialize_order_book_update(payload, g) ==
  [symbol |-> Field(payload, 1, g), side |-> Field(payload, 2, g),
   price |-> Field(payload, 3, g), quantity |-> Field(payload, 4, g)]

\* n levels of LevelSize units each, starting at unit `from` of the payload.
read_levels(payload, from, n, g) ==
  [i \in 1..n |->
     [price |-> Field(payload, from + LevelSize * (i - 1), g),
      quantity |-> Field(payload, from + LevelSize * (i - 1) + 1, g)]]

deserialize_snapshot_response(payload, g) ==
  LET nb == Field(payload, 2, g)
      na == Field(payload, 3, g)
  IN [bids |-> read_levels(payload, SnapshotFixedSize + 1, nb, g),
      asks |-> read_levels(payload, SnapshotFixedSize + 1 + LevelSize * nb, na, g)]

\* Units the deserialiser of each type reads from the payload.
payload_read_extent(header, payload) ==
  IF header.type = MessageType_TICK THEN TickPayloadSize
  ELSE IF header.type = MessageType_HEARTBEAT THEN HeartbeatPayloadSize
  ELSE IF header.type = MessageType_ORDER_BOOK_UPDATE THEN UpdatePayloadSize
  ELSE IF header.type = MessageType_SNAPSHOT_RESPONSE
       THEN SnapshotFixedSize
            + LevelSize * (Field(payload, 2, 0) + Field(payload, 3, 0))
  ELSE 0

\* A frame as the server writes it: the header then the payload units.
Encode(f) == serialize_header(f.type, f.sequence, f.length) \o f.payload


(***************************************************************************)
(* The server side of a connection                                         *)
(***************************************************************************)
MaxSeq    == 2       \* sequence numbers the server stamps: 1..MaxSeq
MaxFrames == 2       \* frames the server writes in one run
MaxWire   == 8       \* units that may be in flight, unread, at once
MAX_LENGTH == 5      \* largest payload length a receiver accepts (1024 bytes)
UNKNOWN_TYPE == 9    \* a type byte that is no message type

Seqs == 1..MaxSeq

TickFrame(s) ==
  [length |-> TickPayloadSize, type |-> MessageType_TICK, sequence |-> s,
   payload |-> <<0, 0, 1, 1>>]
HeartbeatFrame(s) ==
  [length |-> HeartbeatPayloadSize, type |-> MessageType_HEARTBEAT,
   sequence |-> s, payload |-> <<0>>]
UpdateFrame(s, side, quantity) ==
  [length |-> UpdatePayloadSize, type |-> MessageType_ORDER_BOOK_UPDATE,
   sequence |-> s, payload |-> <<0, side, 1, quantity>>]
SnapshotFrame(s) ==
  [length |-> SnapshotFixedSize + LevelSize, type |-> MessageType_SNAPSHOT_RESPONSE,
   sequence |-> s, payload |-> <<0, 1, 0, 1, 1>>]

WellFormedFrames ==
  UNION {{TickFrame(s), HeartbeatFrame(s), SnapshotFrame(s)}
         \cup {UpdateFrame(s, 0, 2), UpdateFrame(s, 0, 0), UpdateFrame(s, 1, 2)}
         : s \in Seqs}

\* Frames no conforming server writes: a TICK that declares no payload, a
\* header that declares more than MAX_LENGTH, an unknown type byte, and an
\* update whose side byte is neither 0 nor 1.
MalformedFrames ==
  {[length |-> 0, type |-> MessageType_TICK, sequence |-> 1, payload |-> <<>>],
   [length |-> MAX_LENGTH + 1, type |-> MessageType_TICK, sequence |-> 1,
    payload |-> <<>>],
   [length |-> 1, type |-> UNKNOWN_TYPE, sequence |-> 1, payload |-> <<0>>],
   UpdateFrame(2, 2, 2)}

WellFormed(f) ==
  /\ f.type \in RecognisedTypes
  /\ f.length <= MAX_LENGTH
  /\ Len(f.payload) = f.length
  /\ f.type = MessageType_TICK => f.length = TickPayloadSize
  /\ f.type = MessageType_HEARTBEAT => f.length = HeartbeatPayloadSize
  /\ f.type = MessageType_ORDER_BOOK_UPDATE => f.length = UpdatePayloadSize

ServerWrite(frames) ==
  /\ is_connected(cm)
  /\ pc \notin {"start", "exit", "crashed"}
  /\ nsent < MaxFrames
  /\ \E f \in frames :
       /\ Len(wire) + Len(Encode(f)) <= MaxWire
       /\ wire' = wire \o Encode(f)
       /\ sent' = Append(sent, f)
  /\ nsent' = nsent + 1
  /\ UNCHANGED <<cmVars, hVars, pipeVars, unitVars>>

ServerSend == ServerWrite(WellFormedFrames)
ServerSendAny == ServerWrite(WellFormedFrames \cup MalformedFrames)

(***************************************************************************)
(* SnapshotFeedHandler (src/feed_handler_snapshot.cpp)                     *)
(***************************************************************************)
MaxReconnections == 1   \* successful reconnects explored in one run
Garbage == {0, 1}       \* what a read past the end of a copy may yield

FeedStatsV2 ==
  [ticks_received |-> 0, heartbeats_received |-> 0, snapshots_received |-> 0,
   incremental_updates |-> 0, reconnections |-> 0, gaps_detected |-> 0]

\* The handler's members that the loop and the per-type processing touch.
Members == [cm |-> cm, book |-> book, stats_ |-> stats_, tracker |-> tracker]

process_tick(S, header, payload, g) ==
  [S EXCEPT !.stats_.ticks_received = @ + 1]

process_heartbeat(S, header, payload, g) ==
  [S EXCEPT !.stats_.heartbeats_received = @ + 1]

process_snapshot_response(S, header, payload, g) ==
  LET d == deserialize_snapshot_response(payload, g) IN
  [S EXCEPT !.stats_.snapshots_received = @ + 1,
            !.book = load_snapshot(@, d.bids, d.asks),
            !.cm = transition_to_incremental(transition_to_snapshot_replay(@))]

\* process_order_book_update without the is_incremental_mode() gate.
process_order_book_update_ungated(S, header, payload, g) ==
  LET update == deserialize_order_book_update(payload, g) IN
  [S EXCEPT !.stats_.incremental_updates = @ + 1,
            !.book = apply_update(@, update.side, update.price,
                                  update.quantity)]

process_order_book_update(S, header, payload, g) ==
  IF ~is_incremental_mode(S.cm) THEN S
  ELSE LET update == deserialize_order_book_update(payload, g) IN
       [S EXCEPT !.stats_.incremental_updates = @ + 1,
                 !.book = apply_update(@, update.side, update.price,
                                       update.quantity)]

\* The switch on header.type at the end of the process_messages loop body.
dispatch(S, header, payload, g) ==
  IF header.type = MessageType_TICK THEN process_tick(S, header, payload, g)
  ELSE IF header.type = MessageType_HEARTBEAT
       THEN process_heartbeat(S, header, payload, g)
  ELSE IF header.type = MessageType_SNAPSHOT_RESPONSE
       THEN process_snapshot_response(S, header, payload, g)
  ELSE IF header.type = MessageType_ORDER_BOOK_UPDATE
       THEN process_order_book_update(S, header, payload, g)
  ELSE S

Dispatched == {MessageType_TICK, MessageType_HEARTBEAT,
               MessageType_SNAPSHOT_RESPONSE, MessageType_ORDER_BOOK_UPDATE}

\* The deserialiser the switch calls reads past the end of message_bytes.
reads_past_end(S, header, payload) ==
  /\ header.type \in Dispatched
  /\ header.type = MessageType_ORDER_BOOK_UPDATE => is_incremental_mode(S.cm)
  /\ payload_read_extent(header, payload) > Len(payload)

\* The sequence check of the loop body (snapshot responses are exempt).
check_sequence(S, header) ==
  IF header.type # MessageType_SNAPSHOT_RESPONSE
  THEN LET sequence_ok == process_sequence_returns(S.tracker, header.sequence) IN
       [S EXCEPT !.tracker = process_sequence(@, header.sequence),
                 !.stats_.gaps_detected = IF sequence_ok THEN @ ELSE @ + 1]
  ELSE S

HeaderReady == available(rb) >= HEADER_SIZE
CurHeader == deserialize_header(peek_bytes(rb, HEADER_SIZE))
FrameReady == HeaderReady /\ available(rb) >= HEADER_SIZE + CurHeader.length


\* The reconnect branch without sequence_tracker_.reset().
try_reconnect_without_reset(S, ok) ==
  LET c == reconnect(S.cm, ok) IN
  IF reconnect_returns(S.cm, ok)
  THEN [S EXCEPT !.cm = transition_to_snapshot_request(c),
                 !.stats_.reconnections = @ + 1]
  ELSE [S EXCEPT !.cm = c]

\* if (conn_manager_.reconnect()) { reconnections++; reset(); transition }
try_reconnect(S, ok) ==
  LET c == reconnect(S.cm, ok) IN
  IF reconnect_returns(S.cm, ok)
  THEN [S EXCEPT !.cm = transition_to_snapshot_request(c),
                 !.stats_.reconnections = @ + 1,
                 !.tracker = reset(@)]
  ELSE [S EXCEPT !.cm = c]

\* A send_snapshot_request that returns after send() in either case.
send_snapshot_request_never_marks(c, sendok) ==
  IF sendok THEN [c EXCEPT !.requests_on_socket = @ + 1] ELSE c

\* send_snapshot_request: mark only when send() did not fail.
send_snapshot_request(c, sendok) ==
  IF sendok
  THEN mark_snapshot_requested([c EXCEPT !.requests_on_socket = @ + 1])
  ELSE c

SetMembers(S) ==
  /\ cm' = S.cm
  /\ book' = S.book
  /\ stats_' = S.stats_
  /\ tracker' = S.tracker

ReconnectAllowed(ok) ==
  IF ok THEN stats_.reconnections < MaxReconnections ELSE CanReconnect(cm)

\* The old socket is closed: what was in flight on it is gone.
NewConnection ==
  /\ wire' = <<>>
  /\ sent' = <<>>
  /\ delivered' = <<>>
  /\ UNCHANGED nsent

\* run(), lines 58-64: the initial connect.
HConnect ==
  /\ pc = "start"
  /\ \E ok \in BOOLEAN :
       /\ cm' = IF connect_returns(cm, ok)
                THEN transition_to_snapshot_request(connect(cm, ok))
                ELSE connect(cm, ok)
       /\ pc' = IF connect_returns(cm, ok) THEN "loop" ELSE "exit"
  /\ UNCHANGED <<should_stop_, tracker, rb, book, stats_, delivered, oob, netVars>>
  /\ UNCHANGED <<pipeVars, unitVars>>

\* run(), lines 67-84: the loop condition and the heartbeat check.
HLoop ==
  /\ pc = "loop"
  /\ \/ /\ should_stop_
        /\ pc' = "exit"
        /\ UNCHANGED <<cm, tracker, book, stats_, delivered, netVars>>
     \/ /\ ~should_stop_
        /\ ~is_heartbeat_timeout(cm)
        /\ pc' = "snapreq"
        /\ UNCHANGED <<cm, tracker, book, stats_, delivered, netVars>>
     \/ /\ ~should_stop_
        /\ is_heartbeat_timeout(cm)
        /\ \E ok \in BOOLEAN :
             /\ ReconnectAllowed(ok)
             /\ SetMembers(try_reconnect(Members, ok))
             /\ pc' = IF ok THEN "snapreq" ELSE "loop"
        /\ NewConnection
  /\ UNCHANGED <<should_stop_, rb, oob, pipeVars, unitVars>>

\* run(), lines 86-89.
HSnapReq ==
  /\ pc = "snapreq"
  /\ IF needs_snapshot_request(cm)
     THEN \E sendok \in BOOLEAN : cm' = send_snapshot_request(cm, sendok)
     ELSE cm' = cm
  /\ pc' = "read"
  /\ UNCHANGED <<should_stop_, tracker, rb, book, stats_, delivered, oob, netVars>>
  /\ UNCHANGED <<pipeVars, unitVars>>

\* read_and_process, lines 136-161: up to the call of process_messages.
HRead ==
  /\ pc = "read"
  /\ LET write_space == get_write_ptr(rb) IN
     \/ /\ write_space = 0
        /\ pc' = "failed"
        /\ UNCHANGED <<rb, wire>>
     \/ /\ write_space > 0
        /\ cm.sockfd_ >= 0
        /\ \E n \in 1..Min(write_space, Len(wire)) :
             /\ rb' = commit_write(store(rb, SubSeq(wire, 1, n)), n)
             /\ wire' = SubSeq(wire, n + 1, Len(wire))
        /\ pc' = "process"
     \/ /\ write_space > 0         \* EAGAIN / EWOULDBLOCK
        /\ cm.sockfd_ >= 0
        /\ pc' = "loop"
        /\ UNCHANGED <<rb, wire>>
     \/ /\ write_space > 0         \* recv error, or 0: closed by the server
        /\ pc' = "failed"
        /\ UNCHANGED <<rb, wire>>
  /\ UNCHANGED <<cm, should_stop_, tracker, book, stats_, delivered, oob,
                 sent, nsent, pipeVars, unitVars>>

\* One pass of the while (true) body of process_messages, lines 170-227.
HProcess ==
  /\ pc = "process"
  /\ IF ~FrameReady
     THEN /\ pc' = "loop"
          /\ UNCHANGED <<cm, tracker, rb, book, stats_, delivered, oob>>
     ELSE LET header == CurHeader
              total_size == HEADER_SIZE + header.length
              message_bytes == peek_bytes(rb, total_size)
              payload == SubSeq(message_bytes, HEADER_SIZE + 1, total_size)
              T == [Members EXCEPT !.cm = update_last_message_time(@)]
              S == check_sequence(T, header)
          IN /\ rb' = consume(rb, total_size)
             /\ \E g \in Garbage : SetMembers(dispatch(S, header, payload, g))
             /\ delivered' = IF header.type \in Dispatched
                             THEN Append(delivered,
                                         [length |-> header.length,
                                          type |-> header.type,
                                          sequence |-> header.sequence,
                                          payload |-> payload])
                             ELSE delivered
             /\ IF reads_past_end(S, header, payload)
                THEN oob' = TRUE /\ pc' \in {"process", "crashed"}
                ELSE oob' = oob /\ pc' = "process"
  /\ UNCHANGED <<should_stop_, netVars, pipeVars, unitVars>>

\* run() going round its loop on the same connection after read_and_process
\* returned false.
HFailed_keeps_connection ==
  /\ pc = "failed"
  /\ pc' = "loop"
  /\ UNCHANGED <<cm, tracker, book, stats_, delivered, netVars>>
  /\ UNCHANGED <<should_stop_, rb, oob, pipeVars, unitVars>>

\* run() leaving its loop when the reconnect after a failed read fails.
HFailed_gives_up ==
  /\ pc = "failed"
  /\ IF should_stop_
     THEN /\ pc' = "loop"
          /\ UNCHANGED <<cm, tracker, book, stats_, delivered, netVars>>
     ELSE /\ \E ok \in BOOLEAN :
               /\ ReconnectAllowed(ok)
               /\ SetMembers(try_reconnect(Members, ok))
               /\ pc' = IF ok THEN "loop" ELSE "exit"
          /\ NewConnection
  /\ UNCHANGED <<should_stop_, rb, oob, pipeVars, unitVars>>

\* run(), lines 92-104: read_and_process returned false.
HFailed ==
  /\ pc = "failed"
  /\ IF should_stop_
     THEN UNCHANGED <<cm, tracker, book, stats_, delivered, netVars>>
     ELSE /\ \E ok \in BOOLEAN :
               /\ ReconnectAllowed(ok)
               /\ SetMembers(try_reconnect(Members, ok))
          /\ NewConnection
  /\ pc' = "loop"
  /\ UNCHANGED <<should_stop_, rb, oob, pipeVars, unitVars>>

\* stop(), called from another thread.
Stop ==
  /\ pc \notin {"exit", "crashed"}
  /\ ~should_stop_
  /\ should_stop_' = TRUE
  /\ UNCHANGED <<cm, pc, tracker, rb, book, stats_, delivered, oob, netVars>>
  /\ UNCHANGED <<pipeVars, unitVars>>

(***************************************************************************)
(* SPSCQueue<T>: a ring of capacity_ slots between one producer, which     *)
(* writes head_, and one consumer, which writes tail_.  One slot is kept   *)
(* free to tell a full queue from an empty one.                            *)
(***************************************************************************)
QUEUE_SIZE == 2      \* FeedConfig::queue_size (1024 * 1024 in the source)

\* The requested capacity rounded up to a power of two.
round_up_pow2(n) ==
  CHOOSE p \in {2 ^ k : k \in 0..8} :
    /\ p >= n
    /\ \A q \in {2 ^ k : k \in 0..8} : q >= n => p <= q

\* A default-constructed Tick, which the queue's slots hold at first.
NoTick == [timestamp |-> 0, symbol |-> 0, price |-> 0, volume |-> 0]

\* A queue of T whose slots hold T() at first.
SPSCQueueOf(requested, default) ==
  [capacity_ |-> round_up_pow2(requested),
   buffer_ |-> [i \in 0..(round_up_pow2(requested) - 1) |-> default],
   head_ |-> 0, tail_ |-> 0]

SPSCQueue(requested) == SPSCQueueOf(requested, NoTick)

next_slot(q, i) == (i + 1) % q.capacity_

empty(q) == q.head_ = q.tail_
size(q) == (q.head_ - q.tail_ + q.capacity_) % q.capacity_
push_returns(q) == next_slot(q, q.head_) # q.tail_
\* A push that takes the reserved slot too when the queue is full.
push_into_reserved_slot(q, value) ==
  [q EXCEPT !.buffer_[q.head_] = value, !.head_ = next_slot(q, q.head_)]
push(q, value) ==
  IF push_returns(q)
  THEN [q EXCEPT !.buffer_[q.head_] = value, !.head_ = next_slot(q, q.head_)]
  ELSE q
pop_returns(q) == ~empty(q)
\* A pop that hands out the newest item instead of the oldest.
pop_value_newest(q) == q.buffer_[(q.head_ + q.capacity_ - 1) % q.capacity_]
pop_value(q) == q.buffer_[q.tail_]
pop(q) == IF pop_returns(q) THEN [q EXCEPT !.tail_ = next_slot(q, q.tail_)] ELSE q

(***************************************************************************)
(* net::FeedHandler: a reader thread (BinaryProtocolReader::run) and a     *)
(* processor thread (TickProcessor::run) around the queue, started and     *)
(* joined by FeedHandler::start, stop and wait.                            *)
(***************************************************************************)
RECV_BUFFER_SIZE == 9   \* sizeof(recv_buffer) (64 * 1024 in the source)


FeedHandler ==
  [at |-> "constructed", running_ |-> FALSE, connection_ |-> FALSE,
   messages_parsed_ |-> 0]
BinaryProtocolReader ==
  [at |-> "unstarted", recv_buffer |-> <<>>, consumed |-> 0, tick |-> NoTick,
   messages_parsed_ |-> 0, recv_result |-> "none"]
TickProcessor == [at |-> "unstarted", messages_processed_ |-> 0]

snapshotVars == <<cm, pc, tracker, rb, book, stats_, delivered, oob>>

\* FeedHandler::start: connect, then start the processor and the reader.
FeedHandlerStart ==
  /\ feed_handler.at = "constructed"
  /\ ~feed_handler.running_
  /\ \E ok \in BOOLEAN :
       IF ok
       THEN /\ feed_handler' = [feed_handler EXCEPT !.at = "running",
                                  !.running_ = TRUE, !.connection_ = TRUE]
            /\ should_stop_' = FALSE
            /\ processor_' = [processor_ EXCEPT !.at = "loop"]
            /\ binary_reader_' = [binary_reader_ EXCEPT !.at = "loop"]
       ELSE /\ feed_handler' = [feed_handler EXCEPT !.at = "failed"]
            /\ UNCHANGED <<should_stop_, processor_, binary_reader_>>
  /\ UNCHANGED <<snapshotVars, unitVars, netVars, queue_, pushed>>

\* FeedHandler::stop up to its call of wait().
FeedHandlerStop ==
  /\ feed_handler.at = "running"
  /\ should_stop_' = TRUE
  /\ feed_handler' = [feed_handler EXCEPT !.connection_ = FALSE,
                                          !.at = "join_reader"]
  /\ UNCHANGED <<snapshotVars, unitVars, netVars, binary_reader_, processor_, queue_,
                 pushed>>

\* FeedHandler::wait called by the owner without stop().
FeedHandlerWait ==
  /\ feed_handler.at = "running"
  /\ feed_handler' = [feed_handler EXCEPT !.at = "join_reader"]
  /\ UNCHANGED <<snapshotVars, unitVars, netVars, should_stop_, binary_reader_,
                 processor_, queue_, pushed>>

\* wait(): reader_thread_.join() returns, then should_stop_ = true.
FeedHandlerJoinReader ==
  /\ feed_handler.at = "join_reader"
  /\ binary_reader_.at = "exit"
  /\ should_stop_' = TRUE
  /\ feed_handler' = [feed_handler EXCEPT !.at = "join_processor"]
  /\ UNCHANGED <<snapshotVars, unitVars, netVars, binary_reader_, processor_, queue_,
                 pushed>>

\* wait(): processor_thread_.join() returns, then update_stats().
FeedHandlerJoinProcessor ==
  /\ feed_handler.at = "join_processor"
  /\ processor_.at = "exit"
  /\ feed_handler' = [feed_handler EXCEPT !.at = "done", !.running_ = FALSE,
                        !.messages_parsed_ = binary_reader_.messages_parsed_]
  /\ UNCHANGED <<snapshotVars, unitVars, netVars, should_stop_, binary_reader_,
                 processor_, queue_, pushed>>

\* The feed server writes a frame on the handler's connection.
FeedServerSend ==
  /\ feed_handler.connection_
  /\ nsent < MaxFrames
  /\ \E f \in WellFormedFrames :
       /\ Len(wire) + Len(Encode(f)) <= MaxWire
       /\ wire' = wire \o Encode(f)
       /\ sent' = Append(sent, f)
  /\ nsent' = nsent + 1
  /\ UNCHANGED <<snapshotVars, should_stop_, pipeVars, unitVars>>

\* BinaryProtocolReader::run: while (!should_stop_).
ReaderLoop ==
  /\ binary_reader_.at = "loop"
  /\ binary_reader_' = [binary_reader_ EXCEPT
                          !.at = IF should_stop_ THEN "exit" ELSE "recv"]
  /\ UNCHANGED <<snapshotVars, unitVars, netVars, should_stop_, feed_handler,
                 processor_, queue_, pushed>>

\* What one call of recv can report: bytes, 0 for an orderly close, or -1
\* with errno EAGAIN / EWOULDBLOCK or with another errno.
RecvFailures == {"closed", "eagain", "error"}

\* recv into recv_buffer + buffer_pos; any result <= 0 stops the pipeline.
\* The socket is a blocking one: once the owner has closed the descriptor
\* under a recv that is already waiting, the call either fails or goes on
\* waiting for bytes that never come.
ReaderRecv ==
  /\ binary_reader_.at = "recv"
  /\ LET space == RECV_BUFFER_SIZE - Len(binary_reader_.recv_buffer) IN
     \/ /\ feed_handler.connection_
        /\ \E n \in 1..Min(space, Len(wire)) :
             /\ binary_reader_' =
                  [binary_reader_ EXCEPT
                     !.recv_buffer = @ \o SubSeq(wire, 1, n),
                     !.consumed = 0, !.recv_result = "bytes", !.at = "parse"]
             /\ wire' = SubSeq(wire, n + 1, Len(wire))
        /\ UNCHANGED should_stop_
     \/ /\ \E r \in RecvFailures :
             /\ ~feed_handler.connection_ => r = "error"
             /\ binary_reader_' = [binary_reader_ EXCEPT !.recv_result = r,
                                                         !.at = "exit"]
        /\ should_stop_' = TRUE
        /\ UNCHANGED wire
     \/ /\ ~feed_handler.connection_
        /\ binary_reader_' = [binary_reader_ EXCEPT !.at = "blocked"]
        /\ UNCHANGED <<should_stop_, wire>>
  /\ UNCHANGED <<snapshotVars, unitVars, sent, nsent, feed_handler, processor_, queue_,
                 pushed>>

ReaderHeaderReady ==
  binary_reader_.consumed + HEADER_SIZE <= Len(binary_reader_.recv_buffer)
ReaderHeader ==
  deserialize_header(SubSeq(binary_reader_.recv_buffer,
                            binary_reader_.consumed + 1,
                            binary_reader_.consumed + HEADER_SIZE))
ReaderMessageReady ==
  /\ ReaderHeaderReady
  /\ binary_reader_.consumed + HEADER_SIZE + ReaderHeader.length
       <= Len(binary_reader_.recv_buffer)

\* One pass of the inner while of run(): decode a frame, or leave the loop
\* and move the unconsumed bytes to the front of recv_buffer.
ReaderParse ==
  /\ binary_reader_.at = "parse"
  /\ IF ~ReaderMessageReady
     THEN binary_reader_' =
            [binary_reader_ EXCEPT
               !.recv_buffer = SubSeq(@, binary_reader_.consumed + 1, Len(@)),
               !.consumed = 0, !.at = "loop"]
     ELSE IF ReaderHeader.type = MessageType_TICK
     THEN \E g \in Garbage :
            binary_reader_' =
              [binary_reader_ EXCEPT
                 !.tick = deserialize_tick_payload(
                            SubSeq(binary_reader_.recv_buffer,
                                   binary_reader_.consumed + HEADER_SIZE + 1,
                                   Len(binary_reader_.recv_buffer)), g),
                 !.at = "push"]
     ELSE binary_reader_' =
            [binary_reader_ EXCEPT
               !.consumed = @ + HEADER_SIZE + ReaderHeader.length]
  /\ UNCHANGED <<snapshotVars, unitVars, netVars, should_stop_, feed_handler,
                 processor_, queue_, pushed>>

\* One iteration of enqueue_with_backpressure's
\* while (!queue_.push(tick) && !should_stop_); when the loop ends, run()
\* counts the tick and steps over its frame.
enqueue_with_backpressure ==
  /\ binary_reader_.at = "push"
  /\ queue_' = push(queue_, binary_reader_.tick)
  /\ pushed' = IF push_returns(queue_) THEN pushed + 1 ELSE pushed
  /\ binary_reader_' =
       IF push_returns(queue_) \/ should_stop_
       THEN [binary_reader_ EXCEPT
               !.messages_parsed_ = @ + 1,
               !.consumed = @ + HEADER_SIZE + ReaderHeader.length,
               !.at = "parse"]
       ELSE binary_reader_
  /\ UNCHANGED <<snapshotVars, unitVars, netVars, should_stop_, feed_handler, processor_>>

\* TickProcessor::run, the first operand of the loop condition.
ProcessorLoop ==
  /\ processor_.at = "loop"
  /\ processor_' = [processor_ EXCEPT
                      !.at = IF ~should_stop_ THEN "pop" ELSE "queue_empty"]
  /\ UNCHANGED <<snapshotVars, unitVars, netVars, should_stop_, feed_handler,
                 binary_reader_, queue_, pushed>>

\* The applier leaving as soon as the stop flag is set: while (!should_stop_).
ProcessorQueueEmpty_ignores_queue ==
  /\ processor_.at = "queue_empty"
  /\ processor_' = [processor_ EXCEPT !.at = "exit"]
  /\ UNCHANGED <<snapshotVars, unitVars, netVars, should_stop_, feed_handler,
                 binary_reader_, queue_, pushed>>

\* TickProcessor::run, the second operand: || !queue_.empty().
ProcessorQueueEmpty ==
  /\ processor_.at = "queue_empty"
  /\ processor_' = [processor_ EXCEPT
                      !.at = IF ~empty(queue_) THEN "pop" ELSE "exit"]
  /\ UNCHANGED <<snapshotVars, unitVars, netVars, should_stop_, feed_handler,
                 binary_reader_, queue_, pushed>>

\* The loop body: pop, and count the tick if there was one.
ProcessorPop ==
  /\ processor_.at = "pop"
  /\ queue_' = pop(queue_)
  /\ processor_' = [processor_ EXCEPT
                      !.messages_processed_ =
                         IF pop_returns(queue_) THEN @ + 1 ELSE @,
                      !.at = "loop"]
  /\ UNCHANGED <<snapshotVars, unitVars, netVars, should_stop_, feed_handler,
                 binary_reader_, pushed>>

(***************************************************************************)
(* The queue alone, between the two threads of the queue tests: a producer *)
(* that pushes 0 .. NUM_MESSAGES - 1, retrying while the queue is full,    *)
(* and a consumer that pops until the producer is done and the queue is    *)
(* empty.                                                                  *)
(***************************************************************************)
NUM_MESSAGES == 6          \* items the producer pushes (100000 in the test)
TestQueueRequested == 3    \* capacity asked of the queue under test

SPSCQueueTest ==
  [queue |-> SPSCQueueOf(TestQueueRequested, 0), i |-> 0,
   producer_done |-> FALSE, received |-> <<>>, consumer_at |-> "loop",
   last_push |-> "none", backpressure |-> FALSE]

unitRest == <<cmVars, hVars, netVars, pipeVars, sidecarVars>>

\* The producer's for loop: one call of queue.push(i); i advances when the
\* push is accepted, and the same i is pushed again when it is not.
ProducerPush ==
  /\ spsc_test.i < NUM_MESSAGES
  /\ spsc_test' =
       [spsc_test EXCEPT
          !.queue = push(@, spsc_test.i),
          !.i = IF push_returns(spsc_test.queue) THEN @ + 1 ELSE @,
          !.last_push = IF push_returns(spsc_test.queue) THEN "ok" ELSE "full",
          !.backpressure = @ \/ ~push_returns(spsc_test.queue)]
  /\ UNCHANGED <<unitRest, ring_io, tracker_io>>

\* After the loop: producer_done.store(true).
ProducerDone ==
  /\ spsc_test.i = NUM_MESSAGES
  /\ ~spsc_test.producer_done
  /\ spsc_test' = [spsc_test EXCEPT !.producer_done = TRUE]
  /\ UNCHANGED <<unitRest, ring_io, tracker_io>>

\* The consumer's loop condition, first operand: !producer_done.
ConsumerLoop ==
  /\ spsc_test.consumer_at = "loop"
  /\ spsc_test' =
       [spsc_test EXCEPT
          !.consumer_at = IF ~spsc_test.producer_done THEN "pop" ELSE "empty"]
  /\ UNCHANGED <<unitRest, ring_io, tracker_io>>

\* Second operand: || !queue.empty().
ConsumerQueueEmpty ==
  /\ spsc_test.consumer_at = "empty"
  /\ spsc_test' =
       [spsc_test EXCEPT
          !.consumer_at = IF ~empty(spsc_test.queue) THEN "pop" ELSE "done"]
  /\ UNCHANGED <<unitRest, ring_io, tracker_io>>

\* The loop body: pop, and record the item if there was one.
ConsumerPop ==
  /\ spsc_test.consumer_at = "pop"
  /\ spsc_test' =
       [spsc_test EXCEPT
          !.queue = pop(@),
          !.received = IF pop_returns(spsc_test.queue)
                       THEN Append(@, pop_value(spsc_test.queue)) ELSE @,
          !.consumer_at = "loop"]
  /\ UNCHANGED <<unitRest, ring_io, tracker_io>>

(***************************************************************************)
(* The ring buffer alone, under any sequence of calls of its interface.    *)
(* The k-th byte ever committed has the value k, so that a byte lost,      *)
(* repeated or overwritten shows in what the reads return.                 *)
(***************************************************************************)
MaxBytes == 12     \* bytes committed in one run

RingBufferTest ==
  [written |-> 0, consumed |-> 0, output |-> <<>>, op |-> "none", n |-> 0,
   ok |-> TRUE, write_len |-> 0]

ringRest == <<cm, pc, should_stop_, tracker, book, stats_, delivered, oob,
              netVars, pipeVars, spsc_test, tracker_io, sidecarVars>>

\* get_write_ptr, a write of n bytes at the pointer, commit_write(n).
RingWrite ==
  \E n \in 1..get_write_ptr(rb) :
    /\ ring_io.written + n <= MaxBytes
    /\ rb' = commit_write(store(rb, [k \in 1..n |-> ring_io.written + k]), n)
    /\ ring_io' = [ring_io EXCEPT !.written = @ + n, !.op = "commit_write",
                                  !.n = n, !.ok = TRUE, !.output = <<>>,
                                  !.write_len = get_write_ptr(rb)]
    /\ UNCHANGED ringRest

RingConsume ==
  \E n \in 1..BUFFER_SIZE :
    /\ rb' = consume(rb, n)
    /\ ring_io' = [ring_io EXCEPT !.consumed = @ + Min(n, available(rb)),
                                  !.op = "consume", !.n = n, !.ok = TRUE,
                                  !.output = <<>>]
    /\ UNCHANGED ringRest

RingReadBytes ==
  \E n \in 1..BUFFER_SIZE :
    /\ rb' = read_bytes(rb, n)
    /\ ring_io' = [ring_io EXCEPT
                     !.consumed = IF read_bytes_returns(rb, n) THEN @ + n ELSE @,
                     !.op = "read_bytes", !.n = n,
                     !.ok = read_bytes_returns(rb, n),
                     !.output = IF read_bytes_returns(rb, n)
                                THEN peek_bytes(rb, n) ELSE <<>>]
    /\ UNCHANGED ringRest

RingPeekBytes ==
  \E n \in 1..BUFFER_SIZE :
    /\ ring_io' = [ring_io EXCEPT
                     !.op = "peek_bytes", !.n = n,
                     !.ok = peek_bytes_returns(rb, n),
                     !.output = IF peek_bytes_returns(rb, n)
                                THEN peek_bytes(rb, n) ELSE <<>>]
    /\ UNCHANGED <<rb, ringRest>>

RingPeek ==
  \E n \in 1..BUFFER_SIZE :
    /\ ring_io' = [ring_io EXCEPT !.op = "peek", !.n = n,
                                  !.ok = peek(rb, n) # <<>>,
                                  !.output = peek(rb, n)]
    /\ UNCHANGED <<rb, ringRest>>

(***************************************************************************)
(* The sequence tracker alone, under any sequence of process_sequence and  *)
(* reset calls.                                                            *)
(***************************************************************************)
MaxGaps == 2       \* cap on gaps_detected_

\* high: the largest last sequence number the tracker has reported since it
\* was constructed or reset; -1 when it has reported none.  prev: the call
\* before the last one.
SequenceTrackerTest ==
  [op |-> "none", sequence |-> 0, result |-> TRUE, high |-> -1,
   prev |-> "none"]

trackerRest == <<cm, pc, should_stop_, rb, book, stats_, delivered, oob,
                 netVars, pipeVars, spsc_test, ring_io, sidecarVars>>

TrackerProcessSequence ==
  \E sequence \in 0..UINT64_MAX :
    /\ process_sequence(tracker, sequence).gaps_detected_ <= MaxGaps
    /\ tracker' = process_sequence(tracker, sequence)
    /\ tracker_io' =
         [op |-> "process_sequence", sequence |-> sequence,
          result |-> process_sequence_returns(tracker, sequence),
          high |-> IF /\ has_received_message(process_sequence(tracker, sequence))
                      /\ process_sequence(tracker, sequence).last_sequence_
                           > tracker_io.high
                   THEN process_sequence(tracker, sequence).last_sequence_
                   ELSE tracker_io.high,
          prev |-> tracker_io.op]
    /\ UNCHANGED trackerRest

TrackerReset ==
  /\ tracker' = reset(tracker)
  /\ tracker_io' = [op |-> "reset", sequence |-> 0, result |-> TRUE,
                    high |-> -1, prev |-> tracker_io.op]
  /\ UNCHANGED trackerRest

(***************************************************************************)
(* The gap tracker alone, under any sequence of process_sequence and reset *)
(* calls with inputs near both ends of the sequence number range.          *)
(***************************************************************************)
MaxGapInput == 5       \* inputs are 0..MaxGapInput and UINT64_MAX
MaxTotalGaps == 16     \* cap on total_gaps_

GapInputs == (0..MaxGapInput) \cup {UINT64_MAX}

\* received: the inputs passed since construction or reset;
\* first_received: the first of them, -1 when there is none.
SequenceGapTrackerTest ==
  [received |-> {}, first_received |-> -1, op |-> "none", sequence |-> 0,
   result |-> TRUE]

gapRest == <<cmVars, hVars, netVars, pipeVars, spsc_test, ring_io, tracker_io,
             book_io, spmc>>

GapTrackerProcessSequence ==
  \E sequence \in GapInputs :
    /\ gap_process_sequence(gap_tracker_, sequence).total_gaps_ <= MaxTotalGaps
    /\ gap_tracker_' = gap_process_sequence(gap_tracker_, sequence)
    /\ gap_io' =
         [received |-> gap_io.received \cup {sequence},
          first_received |-> IF gap_io.first_received = -1 THEN sequence
                             ELSE gap_io.first_received,
          op |-> "process_sequence", sequence |-> sequence,
          result |-> gap_process_sequence_returns(gap_tracker_, sequence)]
    /\ UNCHANGED <<gapRest, udp_handler, udp_net>>

GapTrackerReset ==
  /\ gap_tracker_' = gap_reset(gap_tracker_)
  /\ gap_io' = [SequenceGapTrackerTest EXCEPT !.op = "reset"]
  /\ UNCHANGED <<gapRest, udp_handler, udp_net>>

(***************************************************************************)
(* UDPFeedHandler (src/feed_handler/udp_feed_handler.cpp) against a server *)
(* that multicasts ticks with loss and answers retransmit requests on the  *)
(* TCP control channel (src/mock_server/udp_mock_server.cpp).              *)
(***************************************************************************)
MaxDatagrams == 13     \* ticks the server sends: sequence numbers 0..12
MaxPending == 1        \* datagrams queued on the UDP socket at once
MaxBurst == 1          \* ticks the network loses in a row
MaxCycles == 1         \* periodic gap scans in one run
max_requests == 10     \* size_t max_requests = 10

UDPFeedStats ==
  [messages_received |-> 0, gaps_detected |-> 0,
   retransmit_requests_sent |-> 0, gaps_filled |-> 0, duplicates |-> 0]

\* at: position of run(); ret: where receive_tcp_retransmits returns to;
\* requests_sent: the local of that name when request_retransmits last
\* returned; cycles: periodic scans made so far.
UDPFeedHandler ==
  [at |-> "constructed", ret |-> "loop", udp_fd_ |-> -1, tcp_fd_ |-> -1,
   should_stop_ |-> FALSE, stats_ |-> UDPFeedStats, tcp_buffer_ |-> <<>>,
   requests_sent |-> 0, cycles |-> 0]

\* sequence_number_: the server's next sequence number; datagrams: those
\* queued on the handler's UDP socket; requests: retransmit requests the
\* handler has sent and the server has not yet served; tcp_wire: units the
\* server has written on the control channel, not yet received; burst: the
\* ticks lost in a row just now.
UDPMockServer ==
  [sequence_number_ |-> 0, datagrams |-> <<>>, requests |-> <<>>,
   tcp_wire |-> <<>>, closed |-> FALSE, burst |-> 0]

udpRest == <<gapRest, gap_io>>

\* UDPFeedHandler::start with both sockets created and connected, or not.
UdpStart ==
  /\ udp_handler.at = "constructed"
  /\ \E ok \in BOOLEAN :
       udp_handler' =
         IF ok THEN [udp_handler EXCEPT !.at = "loop", !.udp_fd_ = 3,
                                        !.tcp_fd_ = 4]
         ELSE [udp_handler EXCEPT !.at = "failed"]
  /\ UNCHANGED <<udpRest, gap_tracker_, udp_net>>

\* The server has sent its last tick.
FeedOver == udp_net.sequence_number_ = MaxDatagrams

\* run(): the loop condition and the test of the run's duration, which
\* outlasts the feed.
UdpLoop ==
  /\ udp_handler.at = "loop"
  /\ \E elapsed \in {FALSE, FeedOver} :
       udp_handler' =
         [udp_handler EXCEPT
            !.at = IF udp_handler.should_stop_ \/ elapsed
                   THEN "final_gap_check" ELSE "recv_udp"]
  /\ UNCHANGED <<udpRest, gap_tracker_, udp_net>>

\* The statistics after the TICK branch of receive_udp_packets, given the
\* tracker before and after process_sequence.
udp_tick_stats(st, t, sequence) ==
  LET expected == gap_process_sequence_returns(t, sequence)
      after == gap_process_sequence(t, sequence)
      counted ==
        IF expected THEN st
        ELSE IF sequence < after.last_sequence_
             THEN [st EXCEPT !.gaps_filled = @ + 1]
             ELSE [st EXCEPT !.gaps_detected =
                     (@ + sequence - after.last_sequence_ - 1
                        + (UINT64_MAX + 1)) % (UINT64_MAX + 1)]
  IN [counted EXCEPT !.messages_received = @ + 1]

\* One pass of the loop of receive_udp_packets: recvfrom reports that
\* nothing is queued and the function returns, or hands over one datagram.
UdpRecvfrom ==
  /\ udp_handler.at = "recv_udp"
  /\ IF udp_net.datagrams = <<>>
     THEN /\ udp_handler' = [udp_handler EXCEPT !.at = "gap_check"]
          /\ UNCHANGED <<gap_tracker_, udp_net>>
     ELSE LET buffer == Head(udp_net.datagrams)
              header == deserialize_header(buffer)
          IN /\ udp_net' = [udp_net EXCEPT !.datagrams = Tail(@)]
             /\ IF Len(buffer) < HEADER_SIZE \/ header.type # MessageType_TICK
                THEN UNCHANGED <<udp_handler, gap_tracker_>>
                ELSE /\ gap_tracker_' =
                          gap_process_sequence(gap_tracker_, header.sequence)
                     /\ udp_handler' =
                          [udp_handler EXCEPT
                             !.stats_ = udp_tick_stats(@, gap_tracker_,
                                                       header.sequence)]
  /\ UNCHANGED udpRest

\* The gap ranges request_retransmits sends when the first `accepted` calls
\* of send succeed: it stops at max_requests and at the first failed send.
requests_to_send(t, accepted) ==
  LET gap_ranges == get_gap_ranges(t)
      limit == IF Len(gap_ranges) < max_requests THEN Len(gap_ranges)
               ELSE max_requests
  IN SubSeq(gap_ranges, 1, IF accepted < limit THEN accepted ELSE limit)

\* send on the control channel fails at once or never.
SendOutcomes == {0, max_requests}

\* request_retransmits.
request_retransmits(h, t, accepted) ==
  [h EXCEPT !.stats_.retransmit_requests_sent =
              @ + Len(requests_to_send(t, accepted)),
            !.requests_sent = Len(requests_to_send(t, accepted))]

\* run(): once a second, request_retransmits.
UdpGapCheck ==
  /\ udp_handler.at = "gap_check"
  /\ \/ /\ udp_handler' = [udp_handler EXCEPT !.at = "recv_tcp", !.ret = "loop"]
        /\ UNCHANGED udp_net
     \/ /\ udp_handler.cycles < MaxCycles
        /\ \E accepted \in SendOutcomes :
             /\ udp_handler' =
                  [request_retransmits(udp_handler, gap_tracker_, accepted)
                     EXCEPT !.at = "recv_tcp", !.ret = "loop",
                            !.cycles = @ + 1]
             /\ udp_net' =
                  [udp_net EXCEPT
                     !.requests = @ \o requests_to_send(gap_tracker_, accepted)]
  /\ UNCHANGED <<udpRest, gap_tracker_>>

\* run(): the final gap check after the loop.
UdpFinalGapCheck ==
  /\ udp_handler.at = "final_gap_check"
  /\ \E accepted \in SendOutcomes :
       /\ udp_handler' =
            [request_retransmits(udp_handler, gap_tracker_, accepted)
               EXCEPT !.at = "final_wait"]
       /\ udp_net' =
            [udp_net EXCEPT
               !.requests = @ \o requests_to_send(gap_tracker_, accepted)]
  /\ UNCHANGED <<udpRest, gap_tracker_>>

\* run(): the two-second loop after the final gap check.
UdpFinalWait ==
  /\ udp_handler.at = "final_wait"
  /\ \E elapsed \in BOOLEAN :
       udp_handler' =
         IF elapsed THEN [udp_handler EXCEPT !.at = "done"]
         ELSE [udp_handler EXCEPT !.at = "recv_tcp", !.ret = "final_wait"]
  /\ UNCHANGED <<udpRest, gap_tracker_, udp_net>>

\* The inner loop of receive_tcp_retransmits over the complete messages at
\* the front of tcp_buffer_: the handler record and the tracker after it.
RECURSIVE process_tcp_buffer(_, _)
process_tcp_buffer(h, t) ==
  IF Len(h.tcp_buffer_) < HEADER_SIZE THEN <<h, t>>
  ELSE LET header == deserialize_header(h.tcp_buffer_)
           total_size == HEADER_SIZE + header.length
       IN IF Len(h.tcp_buffer_) < total_size THEN <<h, t>>
          ELSE LET erased == SubSeq(h.tcp_buffer_, total_size + 1,
                                    Len(h.tcp_buffer_))
               IN IF header.type = MessageType_TICK
                  THEN LET filled_gap ==
                             gap_process_sequence_returns(t, header.sequence)
                       IN process_tcp_buffer(
                            [h EXCEPT
                               !.tcp_buffer_ = erased,
                               !.stats_.gaps_filled =
                                  IF filled_gap THEN @ + 1 ELSE @,
                               !.stats_.duplicates =
                                  IF filled_gap THEN @ ELSE @ + 1,
                               !.stats_.messages_received = @ + 1],
                            gap_process_sequence(t, header.sequence))
                  ELSE process_tcp_buffer([h EXCEPT !.tcp_buffer_ = erased], t)

\* One pass of the loop of receive_tcp_retransmits: recv reports no data
\* (or the closed channel) and the function returns, or hands over bytes.
UdpRecvTcp ==
  /\ udp_handler.at = "recv_tcp"
  /\ IF udp_net.tcp_wire = <<>>
     THEN /\ udp_handler' =
               [udp_handler EXCEPT !.at = udp_handler.ret,
                                   !.should_stop_ = @ \/ udp_net.closed]
          /\ UNCHANGED <<gap_tracker_, udp_net>>
     ELSE \E bytes_read \in {n \in {HEADER_SIZE + 1, Len(udp_net.tcp_wire)} :
                               n <= Len(udp_net.tcp_wire)} :
            LET appended ==
                  [udp_handler EXCEPT
                     !.tcp_buffer_ =
                        @ \o SubSeq(udp_net.tcp_wire, 1, bytes_read)]
                after == process_tcp_buffer(appended, gap_tracker_)
            IN /\ udp_handler' = after[1]
               /\ gap_tracker_' = after[2]
               /\ udp_net' =
                    [udp_net EXCEPT
                       !.tcp_wire = SubSeq(@, bytes_read + 1, Len(@))]
  /\ UNCHANGED udpRest

\* The server's feed loop: the next tick is sent or dropped.
UdpServerSend ==
  /\ udp_handler.at \notin {"constructed", "failed"}
  /\ udp_net.sequence_number_ < MaxDatagrams
  /\ Len(udp_net.datagrams) < MaxPending
  /\ \E should_drop_packet \in {FALSE, udp_net.burst < MaxBurst} :
       udp_net' =
         [udp_net EXCEPT
            !.sequence_number_ = @ + 1,
            !.burst = IF should_drop_packet THEN @ + 1 ELSE 0,
            !.datagrams =
               IF should_drop_packet THEN @
               ELSE Append(@, Encode(TickFrame(udp_net.sequence_number_)))]
  /\ UNCHANGED <<udpRest, gap_tracker_, udp_handler>>

\* The cached messages start_sequence..end_sequence, one after another.
RECURSIVE cached_messages(_, _)
cached_messages(start_sequence, end_sequence) ==
  IF start_sequence > end_sequence THEN <<>>
  ELSE Encode(TickFrame(start_sequence))
         \o cached_messages(start_sequence + 1, end_sequence)

\* handle_retransmit_requests: the server reads the oldest request and
\* writes the ticks it asks for on the control channel.
UdpServerRetransmit ==
  /\ udp_net.requests # <<>>
  /\ udp_net.tcp_wire = <<>>
  /\ ~udp_net.closed
  /\ LET request == Head(udp_net.requests) IN
       udp_net' =
         [udp_net EXCEPT
            !.tcp_wire = cached_messages(request[1], request[2]),
            !.requests = Tail(@)]
  /\ UNCHANGED <<udpRest, gap_tracker_, udp_handler>>

\* The server closes the control channel when its feed is over.
UdpServerClose ==
  /\ FeedOver
  /\ ~udp_net.closed
  /\ udp_net' = [udp_net EXCEPT !.closed = TRUE]
  /\ UNCHANGED <<udpRest, gap_tracker_, udp_handler>>

(***************************************************************************)
(* An OrderBook on its own, under any calls of clear, load_snapshot and    *)
(* apply_update (tests/test_order_book.cpp)                                *)
(***************************************************************************)
MaxPrice == 2        \* prices are 1..MaxPrice
MaxQuantity == 2     \* quantities go up to MaxQuantity
MaxLevels == 1       \* levels in one snapshot, both sides together

TestPrices == 1..MaxPrice
TestSides == 0..2                         \* uint8_t: 0 is the bid side
UpdateQuantities == (0 - 1)..MaxQuantity  \* int64_t
LevelQuantities == 0..MaxQuantity         \* uint64_t

OrderBookLevels ==
  [price : TestPrices, quantity : LevelQuantities]

\* The vectors of n levels.
LevelVectors(n) == [1..n -> OrderBookLevels]

\* The last call, the quantity passed to apply_update or the vectors passed
\* to load_snapshot, and whether the side held a level at the price (the
\* book held any level, for load_snapshot) before the call.
OrderBookTest ==
  [op |-> "none", quantity |-> 0, had_level |-> FALSE,
   bids |-> <<>>, asks |-> <<>>]

bookRest == <<cm, pc, should_stop_, tracker, rb, stats_, delivered, oob,
              netVars, pipeVars, spsc_test, ring_io, tracker_io,
              gap_tracker_, gap_io, udp_handler, udp_net, spmc>>

BookClear ==
  /\ book' = clear(book)
  /\ book_io' = [OrderBookTest EXCEPT !.op = "clear"]
  /\ UNCHANGED bookRest

BookLoadSnapshot ==
  \E nb \in 0..MaxLevels :
    \E na \in 0..(MaxLevels - nb) :
      \E bids \in LevelVectors(nb) :
        \E asks \in LevelVectors(na) :
          /\ book' = load_snapshot(book, bids, asks)
          /\ book_io' = [OrderBookTest EXCEPT
                           !.op = "load_snapshot",
                           !.bids = bids, !.asks = asks,
                           !.had_level = (DOMAIN book.bids_ # {}
                                          \/ DOMAIN book.asks_ # {})]
          /\ UNCHANGED bookRest

BookApplyUpdate ==
  \E side \in TestSides :
    \E price \in TestPrices :
      \E quantity \in UpdateQuantities :
        /\ book' = apply_update(book, side, price, quantity)
        /\ book_io' = [OrderBookTest EXCEPT
                         !.op = "apply_update", !.quantity = quantity,
                         !.had_level =
                           IF side = 0 THEN price \in DOMAIN book.bids_
                           ELSE price \in DOMAIN book.asks_]
        /\ UNCHANGED bookRest

(***************************************************************************)
(* The SPMC feed handler (src/feed_handler_spmc.cpp): one ReaderThread     *)
(* that parses length-prefixed ticks and pushes them, and two              *)
(* ConsumerThreads that pop from the same SPMCQueue.  The queue is the     *)
(* SPSC queue with a pop in which the consumers compete for the slot at    *)
(* tail_ with a compare-and-swap on tail_.  A tick is identified by its    *)
(* number on the connection, 1, 2, ...; the frame 0 stands for a frame     *)
(* whose length field is not BinaryTick::PAYLOAD_SIZE.  The connection     *)
(* delivers whole frames.                                                  *)
(***************************************************************************)
MaxSpmcFrames == 3          \* frames the exchange sends before it closes
SpmcQueueRequested == 2     \* queue_size (2048 by default in the source)
NumConsumers == 2           \* consumer1 and consumer2 of main
flush_interval == 1000      \* local counts are flushed every 1000 messages

Consumers == 0..(NumConsumers - 1)

SPMCQueue(requested) == SPSCQueueOf(requested, 0)

\* tail_.compare_exchange(expected, next): whether it succeeds.
compare_exchange_tail(q, expected) == q.tail_ = expected

\* ConsumerThread: position, the tail and item pop() has loaded, the local
\* and flushed counts, and the ticks it has processed so far.
ConsumerThread ==
  [at |-> "loop", current_tail |-> 0, item |-> 0, local_messages |-> 0,
   messages_processed |-> 0, seen |-> <<>>]

\* ReaderThread: position, the frames in its ring buffer, the tick being
\* pushed and the count of parsed messages.
ReaderThread == [at |-> "read", buffer_ |-> <<>>, msg |-> 0, messages_parsed_ |-> 0]

\* main: the connection, the queue, the two flags and the three threads.
SpmcFeedHandler ==
  [queue |-> SPMCQueue(SpmcQueueRequested),
   should_stop |-> FALSE, reader_done |-> FALSE,
   wire |-> <<>>, nsent |-> 0, nticks |-> 0, closed |-> FALSE,
   reader |-> ReaderThread,
   consumer |-> [c \in Consumers |-> ConsumerThread]]

spmcRest == <<cmVars, hVars, netVars, pipeVars, spsc_test, ring_io, tracker_io,
              gap_tracker_, gap_io, udp_handler, udp_net, book_io>>

\* The exchange writes a tick, or a frame with a wrong length field.
SpmcServerSend ==
  /\ ~spmc.closed
  /\ spmc.nsent < MaxSpmcFrames
  /\ \E valid \in BOOLEAN :
       spmc' = [spmc EXCEPT
                  !.wire = Append(@, IF valid THEN spmc.nticks + 1 ELSE 0),
                  !.nsent = @ + 1,
                  !.nticks = IF valid THEN @ + 1 ELSE @]
  /\ UNCHANGED spmcRest

\* The exchange closes the connection.
SpmcServerClose ==
  /\ ~spmc.closed
  /\ spmc' = [spmc EXCEPT !.closed = TRUE]
  /\ UNCHANGED spmcRest

\* ReaderThread::run, loop condition and read_from_socket: recv appends what
\* has arrived to the ring buffer; EAGAIN yields and goes on to parse;
\* end of stream leaves the loop, after which main's lambda stores
\* reader_done.
SpmcReaderRead ==
  /\ spmc.reader.at = "read"
  /\ ~spmc.should_stop
  /\ IF spmc.wire # <<>>
     THEN \E k \in 1..Len(spmc.wire) :
            spmc' = [spmc EXCEPT
                       !.reader.buffer_ = @ \o SubSeq(spmc.wire, 1, k),
                       !.wire = SubSeq(@, k + 1, Len(@)),
                       !.reader.at = "parse"]
     ELSE IF spmc.closed
          THEN spmc' = [spmc EXCEPT !.reader.at = "exit", !.reader_done = TRUE]
          ELSE spmc' = [spmc EXCEPT !.reader.at = "parse"]
  /\ UNCHANGED spmcRest

\* ReaderThread::parse_and_enqueue up to the push: no complete frame ends
\* the call, a wrong length returns without consuming, a tick is read out
\* of the ring buffer.
SpmcReaderParse ==
  /\ spmc.reader.at = "parse"
  /\ IF spmc.reader.buffer_ = <<>> \/ Head(spmc.reader.buffer_) = 0
     THEN spmc' = [spmc EXCEPT !.reader.at = "read"]
     ELSE spmc' = [spmc EXCEPT
                     !.reader.msg = Head(spmc.reader.buffer_),
                     !.reader.buffer_ = Tail(@),
                     !.reader.at = "push"]
  /\ UNCHANGED spmcRest

\* while (!queue_.push(std::move(msg))) yield; messages_parsed_++: the
\* reader leaves the loop with the push that is accepted.
SpmcReaderPush ==
  /\ spmc.reader.at = "push"
  /\ push_returns(spmc.queue)
  /\ spmc' = [spmc EXCEPT
                !.queue = push(@, spmc.reader.msg),
                !.reader.messages_parsed_ = @ + 1,
                !.reader.at = "parse"]
  /\ UNCHANGED spmcRest

\* ConsumerThread::run: while (!reader_done_ || !queue_.empty()), and the
\* final flush of the local count when the loop is left.
SpmcConsumerLoop ==
  \E c \in Consumers :
    /\ spmc.consumer[c].at = "loop"
    /\ IF ~spmc.reader_done \/ ~empty(spmc.queue)
       THEN spmc' = [spmc EXCEPT !.consumer[c].at = "pop"]
       ELSE spmc' = [spmc EXCEPT
                       !.consumer[c].messages_processed =
                         @ + spmc.consumer[c].local_messages,
                       !.consumer[c].local_messages = 0,
                       !.consumer[c].at = "exit"]
    /\ UNCHANGED spmcRest

\* SPMCQueue::pop, first half: load tail_, return nothing when it equals
\* head_ (the consumer yields), else read the item in the slot at tail_.
SpmcConsumerPopLoad ==
  \E c \in Consumers :
    /\ spmc.consumer[c].at = "pop"
    /\ IF empty(spmc.queue)
       THEN spmc' = [spmc EXCEPT !.consumer[c].at = "loop"]
       ELSE spmc' = [spmc EXCEPT
                       !.consumer[c].current_tail = spmc.queue.tail_,
                       !.consumer[c].item = pop_value(spmc.queue),
                       !.consumer[c].at = "cas"]
    /\ UNCHANGED spmcRest

\* SPMCQueue::pop, second half: the compare-and-swap on tail_.  The winner
\* returns the item it read and the consumer counts it (flushing every
\* flush_interval messages); the loser starts pop over.
SpmcConsumerPopCas ==
  \E c \in Consumers :
    /\ spmc.consumer[c].at = "cas"
    /\ IF compare_exchange_tail(spmc.queue, spmc.consumer[c].current_tail)
       THEN LET n == spmc.consumer[c].local_messages + 1
                flush == n % flush_interval = 0
            IN spmc' = [spmc EXCEPT
                          !.queue.tail_ = next_slot(spmc.queue, @),
                          !.consumer[c].seen = Append(@, spmc.consumer[c].item),
                          !.consumer[c].local_messages = IF flush THEN 0 ELSE n,
                          !.consumer[c].messages_processed =
                            IF flush THEN @ + n ELSE @,
                          !.consumer[c].at = "loop"]
       ELSE spmc' = [spmc EXCEPT !.consumer[c].at = "pop"]
    /\ UNCHANGED spmcRest

(***************************************************************************)
(* Specifications                                                          *)
(***************************************************************************)
Init ==
  /\ cm = ConnectionManagerV2
  /\ pc = "start"
  /\ should_stop_ = FALSE
  /\ tracker = SequenceTracker
  /\ rb = RingBuffer
  /\ book = OrderBook
  /\ stats_ = FeedStatsV2
  /\ wire = <<>>
  /\ sent = <<>>
  /\ delivered = <<>>
  /\ nsent = 0
  /\ oob = FALSE
  /\ feed_handler = FeedHandler
  /\ binary_reader_ = BinaryProtocolReader
  /\ processor_ = TickProcessor
  /\ queue_ = SPSCQueue(QUEUE_SIZE)
  /\ pushed = 0
  /\ spsc_test = SPSCQueueTest
  /\ ring_io = RingBufferTest
  /\ tracker_io = SequenceTrackerTest
  /\ gap_tracker_ = SequenceGapTracker
  /\ gap_io = SequenceGapTrackerTest
  /\ udp_handler = UDPFeedHandler
  /\ udp_net = UDPMockServer
  /\ book_io = OrderBookTest
  /\ spmc = SpmcFeedHandler

\* The connection manager under arbitrary calls of its public interface.
NextCM ==
  \/ OpConnect
  \/ OpReconnect
  \/ OpDisconnect
  \/ OpTransitionToSnapshotRequest
  \/ OpMarkSnapshotRequested
  \/ OpTransitionToSnapshotReplay
  \/ OpTransitionToIncremental
  \/ OpUpdateLastMessageTime
  \/ Tick

SpecCM == Init /\ [][NextCM]_vars

\* The snapshot feed handler against a server that may write anything.
Next ==
  \/ HConnect
  \/ HLoop
  \/ HSnapReq
  \/ HRead
  \/ HProcess
  \/ HFailed
  \/ Stop
  \/ Tick
  \/ ServerSendAny

Spec == Init /\ [][Next]_vars

\* The snapshot feed handler against a conforming server.
NextConforming ==
  \/ HConnect
  \/ HLoop
  \/ HSnapReq
  \/ HRead
  \/ HProcess
  \/ HFailed
  \/ Stop
  \/ Tick
  \/ ServerSend

SpecConforming == Init /\ [][NextConforming]_vars

\* net::FeedHandler with the binary protocol: owner, reader, processor, server.
NextPipeline ==
  \/ FeedHandlerStart
  \/ FeedHandlerStop
  \/ FeedHandlerWait
  \/ FeedHandlerJoinReader
  \/ FeedHandlerJoinProcessor
  \/ FeedServerSend
  \/ ReaderLoop
  \/ ReaderRecv
  \/ ReaderParse
  \/ enqueue_with_backpressure
  \/ ProcessorLoop
  \/ ProcessorQueueEmpty
  \/ ProcessorPop

SpecPipeline == Init /\ [][NextPipeline]_vars

\* The queue between the producer and the consumer of the queue tests.
NextQueue ==
  \/ ProducerPush
  \/ ProducerDone
  \/ ConsumerLoop
  \/ ConsumerQueueEmpty
  \/ ConsumerPop

SpecQueue == Init /\ [][NextQueue]_vars

\* The ring buffer under any sequence of calls.
NextRingBuffer ==
  \/ RingWrite
  \/ RingConsume
  \/ RingReadBytes
  \/ RingPeekBytes
  \/ RingPeek

SpecRingBuffer == Init /\ [][NextRingBuffer]_vars

\* The sequence tracker under any sequence of calls.
NextSequenceTracker ==
  \/ TrackerProcessSequence
  \/ TrackerReset

SpecSequenceTracker == Init /\ [][NextSequenceTracker]_vars

\* The gap tracker under any sequence of calls.
NextGapTracker ==
  \/ GapTrackerProcessSequence
  \/ GapTrackerReset

SpecGapTracker == Init /\ [][NextGapTracker]_vars

\* The UDP feed handler against a lossy feed and a retransmitting server.
NextUdp ==
  \/ UdpStart
  \/ UdpLoop
  \/ UdpRecvfrom
  \/ UdpGapCheck
  \/ UdpFinalGapCheck
  \/ UdpFinalWait
  \/ UdpRecvTcp
  \/ UdpServerSend
  \/ UdpServerRetransmit
  \/ UdpServerClose

SpecUdp == Init /\ [][NextUdp]_vars

\* An order book under arbitrary calls of clear, load_snapshot, apply_update.
NextOrderBook ==
  \/ BookClear
  \/ BookLoadSnapshot
  \/ BookApplyUpdate

SpecOrderBook == Init /\ [][NextOrderBook]_vars

\* The SPMC feed handler: exchange, reader and the two consumers.
NextSpmc ==
  \/ SpmcServerSend
  \/ SpmcServerClose
  \/ SpmcReaderRead
  \/ SpmcReaderParse
  \/ SpmcReaderPush
  \/ SpmcConsumerLoop
  \/ SpmcConsumerPopLoad
  \/ SpmcConsumerPopCas

SpecSpmc == Init /\ [][NextSpmc]_vars

\* The same pipeline with every thread scheduled again and again: each step
\* of the reader, of the processor and of the joins in wait() is taken if it
\* stays possible.
PipelineFairness ==
  /\ WF_vars(ReaderLoop)
  /\ WF_vars(ReaderRecv)
  /\ WF_vars(ReaderParse)
  /\ WF_vars(enqueue_with_backpressure)
  /\ WF_vars(ProcessorLoop)
  /\ WF_vars(ProcessorQueueEmpty)
  /\ WF_vars(ProcessorPop)
  /\ WF_vars(FeedHandlerJoinReader)
  /\ WF_vars(FeedHandlerJoinProcessor)

SpecPipelineFair == Init /\ [][NextPipeline]_vars /\ PipelineFairness

TypeOK ==
  /\ cm.state_ \in State
  /\ pc \in {"start", "loop", "snapreq", "read", "process", "failed", "exit",
             "crashed"}
  /\ rb.size_ \in 0..(BUFFER_SIZE - 1)
  /\ rb.read_pos_ \in 0..(BUFFER_SIZE - 1)
  /\ rb.write_pos_ \in 0..(BUFFER_SIZE - 1)
  /\ queue_.head_ \in 0..(queue_.capacity_ - 1)
  /\ queue_.tail_ \in 0..(queue_.capacity_ - 1)
  /\ binary_reader_.consumed <= Len(binary_reader_.recv_buffer)
  /\ Len(binary_reader_.recv_buffer) <= RECV_BUFFER_SIZE

(***************************************************************************)
(* Properties                                                              *)
(***************************************************************************)
CMOps == {"connect", "reconnect", "disconnect", "transition_to_snapshot_request",
          "mark_snapshot_requested", "transition_to_snapshot_replay",
          "transition_to_incremental"}

\* The manager after operation op; ok is the outcome of the socket connect.
CMApply(op, c, ok) ==
  CASE op = "connect" -> connect(c, ok)
    [] op = "reconnect" -> reconnect(c, ok)
    [] op = "disconnect" -> disconnect(c)
    [] op = "transition_to_snapshot_request" -> transition_to_snapshot_request(c)
    [] op = "mark_snapshot_requested" -> mark_snapshot_requested(c)
    [] op = "transition_to_snapshot_replay" -> transition_to_snapshot_replay(c)
    [] op = "transition_to_incremental" -> transition_to_incremental(c)

SameFlag(c, d) == d.snapshot_requested_ = c.snapshot_requested_

\* The rows of the transition table of section 4.6, from state c to state d.
TableRow(op, c, d) ==
  CASE op = "connect" ->
         /\ c.state_ = DISCONNECTED
         /\ \/ d.state_ = CONNECTED /\ ~d.snapshot_requested_
            \/ d.state_ = DISCONNECTED /\ SameFlag(c, d)
    [] op = "reconnect" ->
         \/ d.state_ = CONNECTED /\ ~d.snapshot_requested_
         \/ d.state_ = DISCONNECTED /\ SameFlag(c, d)
    [] op = "disconnect" ->
         is_connected(c) /\ d.state_ = DISCONNECTED /\ SameFlag(c, d)
    [] op = "transition_to_snapshot_request" ->
         c.state_ = CONNECTED /\ d.state_ = SNAPSHOT_REQUEST
         /\ ~d.snapshot_requested_
    [] op = "mark_snapshot_requested" ->
         c.state_ = SNAPSHOT_REQUEST /\ d.state_ = SNAPSHOT_REQUEST
         /\ d.snapshot_requested_
    [] op = "transition_to_snapshot_replay" ->
         c.state_ = SNAPSHOT_REQUEST /\ d.state_ = SNAPSHOT_REPLAY
         /\ SameFlag(c, d)
    [] op = "transition_to_incremental" ->
         c.state_ = SNAPSHOT_REPLAY /\ d.state_ = INCREMENTAL /\ SameFlag(c, d)

\* C1: in every reachable state of the connection manager, each operation
\* either takes a transition the table lists for that state or leaves the
\* connection state and the snapshot_requested flag as they were.
C1_StateMachineLegality ==
  \A op \in CMOps : \A ok \in BOOLEAN :
    LET d == CMApply(op, cm, ok) IN
    \/ TableRow(op, cm, d)
    \/ d.state_ = cm.state_ /\ SameFlag(cm, d)

\* A step of run() in which conn_manager_.reconnect() returned true.
ReconnectSucceeds ==
  /\ pc \in {"loop", "failed"}
  /\ cm' # cm
  /\ cm'.sockfd_ >= 0

\* C2: the step in which reconnect() succeeds leaves the tracker reset and the
\* manager in SNAPSHOT_REQUEST with snapshot_requested false, and processes no
\* frame: every frame of the new connection is processed after that.
C2_ReconnectReentersSnapshotRequest ==
  [][ReconnectSucceeds =>
       /\ cm'.state_ = SNAPSHOT_REQUEST
       /\ ~cm'.snapshot_requested_
       /\ tracker'.last_sequence_ = UINT64_MAX
       /\ delivered' = <<>>
       /\ book' = book
       /\ rb' = rb
       /\ pc' # "process"]_vars

\* A frame was processed on a connection made by a successful reconnect.
C2_Witness == stats_.reconnections > 0 /\ Len(delivered) > 0

DuplicateOrOld(t, sequence) ==
  t.last_sequence_ # UINT64_MAX /\ sequence <= t.last_sequence_

\* C3: a complete frame whose sequence number is a duplicate or old is
\* dropped: it reaches no per-type processing, and neither the counters of
\* processed messages nor the book change.
C3_DuplicateDropped ==
  [][(/\ pc = "process"
      /\ FrameReady
      /\ CurHeader.type # MessageType_SNAPSHOT_RESPONSE
      /\ DuplicateOrOld(tracker, CurHeader.sequence))
     => /\ delivered' = delivered
        /\ book' = book
        /\ stats_'.ticks_received = stats_.ticks_received
        /\ stats_'.incremental_updates = stats_.incremental_updates]_vars

\* C4: processing an ORDER_BOOK_UPDATE frame while the state is not
\* INCREMENTAL leaves the order book and the update counter unchanged.
C4_UpdateDiscardedBeforeIncremental ==
  [][(/\ pc = "process"
      /\ FrameReady
      /\ CurHeader.type = MessageType_ORDER_BOOK_UPDATE
      /\ cm.state_ # INCREMENTAL)
     => /\ book' = book
        /\ stats_'.incremental_updates = stats_.incremental_updates]_vars

\* An update was processed on a connection still waiting for its snapshot
\* while the book held levels of the previous connection.
C4_Witness ==
  /\ cm.state_ = SNAPSHOT_REQUEST
  /\ DOMAIN book.bids_ # {}
  /\ \E i \in 1..Len(delivered) :
       /\ delivered[i].type = MessageType_ORDER_BOOK_UPDATE
       /\ delivered[i].payload[4] > 0

RECURSIVE TotalSize(_)
TotalSize(frames) ==
  IF frames = <<>> THEN 0
  ELSE HEADER_SIZE + Head(frames).length + TotalSize(Tail(frames))

\* C5: on the first connection to a conforming server, whatever the sizes of
\* the chunks recv returned, the frames decoded so far are the frames the
\* server wrote, in order and once each; when everything written has been
\* received and process_messages has returned, all of them are decoded.
C5_Reassembly ==
  stats_.reconnections = 0 =>
    /\ Len(delivered) <= Len(sent)
    /\ \A i \in 1..Len(delivered) : delivered[i] = sent[i]
    /\ (wire = <<>> /\ pc # "process") => delivered = sent

\* Two frames were decoded, the second out of a region that wraps.
C5_Witness ==
  /\ stats_.reconnections = 0
  /\ Len(delivered) >= 2
  /\ delivered = sent
  /\ TotalSize(delivered) > BUFFER_SIZE

\* C6: no read made while handling a frame goes past the header plus the
\* declared payload of that frame.
C6_FramingSafety == ~oob

\* C7: a frame with an unrecognised type byte ends decoding on the connection:
\* it is not run through the tracker or the counters, and the handler goes to
\* the reconnect path.
C7_UnknownTypeFatal ==
  [][(/\ pc = "process"
      /\ HeaderReady
      /\ CurHeader.type \notin RecognisedTypes)
     => /\ pc' = "failed"
        /\ tracker' = tracker
        /\ stats_' = stats_]_vars

BadLength(header) ==
  \/ header.length > MAX_LENGTH
  \/ header.type = MessageType_TICK /\ header.length # TickPayloadSize
  \/ header.type = MessageType_HEARTBEAT /\ header.length # HeartbeatPayloadSize
  \/ header.type = MessageType_ORDER_BOOK_UPDATE
     /\ header.length # UpdatePayloadSize

\* C8: a header whose declared length is over the maximum, or is not the
\* payload size of its type, is fatal at once: the handler neither waits for
\* the declared bytes nor deserialises a payload, and goes to the reconnect
\* path.
C8_BadLengthFatal ==
  [][(/\ pc = "process"
      /\ HeaderReady
      /\ CurHeader.type \in RecognisedTypes
      /\ BadLength(CurHeader))
     => /\ pc' = "failed"
        /\ stats_' = stats_
        /\ oob' = oob]_vars

\* C9: the processor thread leaves its loop only in a step at which the stop
\* flag is set and the queue is empty; it never exits while the stop flag is
\* clear or while a tick is still in the queue.
C9_ApplierExitsOnlyWhenStoppedAndDrained ==
  [][(processor_.at # "exit" /\ processor_'.at = "exit")
       => (should_stop_ /\ empty(queue_) /\ should_stop_' /\ empty(queue_'))]_vars

\* The owner has called stop() and the processor thread has left its loop
\* after having taken at least one tick out of the queue.
C9_Witness ==
  /\ processor_.at = "exit"
  /\ processor_.messages_processed_ > 0
  /\ should_stop_
  /\ feed_handler.at \in {"join_reader", "join_processor"}
  /\ feed_handler.connection_ = FALSE

\* C10: every tick the reader has counted as parsed went into the queue
\* exactly once: the number of ticks counted equals the number of pushes
\* the queue accepted, whether or not the queue was full when the tick came.
C10_ParsedTicksEnqueuedOnce ==
  binary_reader_.messages_parsed_ = pushed

\* C11: once stop() has been called on a running pipeline, the reader thread
\* and the processor thread both terminate and stop() returns, wherever the
\* reader was: waiting in recv, spinning on a full queue, or parsing.
StopCalled == feed_handler.at = "join_reader" /\ ~feed_handler.connection_
C11_StopTerminates ==
  StopCalled ~> (/\ feed_handler.at = "done"
                 /\ binary_reader_.at = "exit"
                 /\ processor_.at = "exit")

\* C12: when recv reports EAGAIN or EWOULDBLOCK the reader goes back to the
\* top of its loop and leaves the stop flag as it was; it sets the stop flag
\* and exits only after an orderly close or another error.
RecvReturned == binary_reader_.at = "recv" /\ binary_reader_'.at \in {"parse", "loop", "exit"}
C12_EagainContinues ==
  [][RecvReturned =>
       /\ binary_reader_'.recv_result = "eagain"
            => (should_stop_' = should_stop_ /\ binary_reader_'.at = "loop")
       /\ binary_reader_'.at = "exit"
            => binary_reader_'.recv_result \in {"closed", "error"}]_vars

\* C13: with one producer pushing NUM_MESSAGES items, retrying on full, and
\* one consumer popping until the producer is done and the queue is empty,
\* the consumer has at every moment received a prefix of the pushed items in
\* push order, and when it finishes it has received all of them: none lost,
\* duplicated or reordered.
C13_SpscFifo ==
  /\ spsc_test.received
       = [k \in 1..Len(spsc_test.received) |-> k - 1]
  /\ Len(spsc_test.received) <= spsc_test.i
  /\ spsc_test.consumer_at = "done"
       => spsc_test.received = [k \in 1..NUM_MESSAGES |-> k - 1]

\* The consumer has finished after the producer met a full queue on the way.
C13_Witness ==
  /\ spsc_test.consumer_at = "done"
  /\ Len(spsc_test.received) = NUM_MESSAGES
  /\ spsc_test.backpressure

\* C14: a queue of capacity C (the requested capacity rounded up to a power
\* of two) never holds more than C - 1 unpopped items; a push is accepted
\* while fewer than C - 1 items are queued, and is refused, leaving the
\* queued items as they were, when C - 1 items are queued.
Unpopped(t) == t.i - Len(t.received)
QueuedItems(q) == [k \in 1..size(q) |-> q.buffer_[(q.tail_ + k - 1) % q.capacity_]]
IsPushStep ==
  /\ spsc_test'.received = spsc_test.received
  /\ spsc_test'.consumer_at = spsc_test.consumer_at
  /\ spsc_test'.producer_done = spsc_test.producer_done
  /\ spsc_test' # spsc_test
C14_SpscCapacity ==
  [][/\ Unpopped(spsc_test) <= round_up_pow2(TestQueueRequested) - 1
     /\ size(spsc_test.queue) = Unpopped(spsc_test)
     /\ IsPushStep =>
          IF Unpopped(spsc_test) < round_up_pow2(TestQueueRequested) - 1
          THEN /\ spsc_test'.last_push = "ok"
               /\ QueuedItems(spsc_test'.queue)
                    = Append(QueuedItems(spsc_test.queue), spsc_test.i)
          ELSE /\ spsc_test'.last_push = "full"
               /\ spsc_test'.i = spsc_test.i
               /\ QueuedItems(spsc_test'.queue) = QueuedItems(spsc_test.queue)]_vars

\* A push has just been refused by a queue that holds C - 1 items.
C14_Witness ==
  /\ spsc_test.last_push = "full"
  /\ size(spsc_test.queue) = round_up_pow2(TestQueueRequested) - 1

\* C15: after any sequence of commit_write, consume, read_bytes, peek and
\* peek_bytes calls, each commit no larger than the length get_write_ptr
\* returned, available() is the number of bytes committed minus the number
\* of bytes consumed.
C15_AvailableIsCommittedMinusConsumed ==
  /\ ring_io.op = "commit_write" => ring_io.n <= ring_io.write_len
  /\ available(rb) = ring_io.written - ring_io.consumed

\* Bytes have been committed across the wrap point, some consumed, and some
\* are still readable.
C15_Witness ==
  /\ ring_io.written > BUFFER_SIZE
  /\ ring_io.consumed > 0
  /\ available(rb) > 0
  /\ rb.write_pos_ < rb.read_pos_

\* C16: what successive consuming reads return is the committed bytes in
\* commit order, also when the readable region or the write position wraps:
\* a read_bytes returns the bytes that follow the ones consumed before it,
\* and the readable region always holds exactly the committed bytes not yet
\* consumed, so none is overwritten before it is consumed or returned twice.
C16_ReadsReturnCommittedBytesInOrder ==
  /\ (ring_io.op = "read_bytes" /\ ring_io.ok)
       => ring_io.output
            = [k \in 1..ring_io.n |-> ring_io.consumed - ring_io.n + k]
  /\ peek_bytes(rb, available(rb))
       = [k \in 1..available(rb) |-> ring_io.consumed + k]

\* A read_bytes has just returned bytes that lay across the wrap point.
C16_Witness ==
  /\ ring_io.op = "read_bytes"
  /\ ring_io.ok
  /\ ring_io.n > 1
  /\ rb.read_pos_ > 0
  /\ rb.read_pos_ < ring_io.n
  /\ ring_io.written > BUFFER_SIZE

\* C17: in every reachable state the length get_write_ptr returns is
\* min(capacity - size - 1, capacity - write_pos): the free space less the
\* reserved byte, capped by the distance to the wrap point.
C17_WritableRegion ==
  get_write_ptr(rb) = Min(free_space(rb), BUFFER_SIZE - rb.write_pos_)

\* The reserved byte is what limits the region: read_pos_ is 0, bytes are
\* readable, and the write position has not reached the end of the storage.
C17_Witness ==
  /\ rb.read_pos_ = 0
  /\ rb.size_ > 0
  /\ get_write_ptr(rb) = free_space(rb)
  /\ get_write_ptr(rb) < BUFFER_SIZE - rb.write_pos_
  /\ ring_io.consumed > 0

\* C18: consume(n) with n greater than available() consumes exactly
\* available() bytes: afterwards available() is 0, the read position equals
\* the write position, and the size counter has not underflowed.
ConsumedTooMuch ==
  /\ ring_io'.op = "consume"
  /\ ring_io'.n > available(rb)
  /\ <<rb, ring_io>>' # <<rb, ring_io>>
C18_ConsumeClamps ==
  [][ConsumedTooMuch =>
       /\ available(rb') = 0
       /\ rb'.read_pos_ = rb'.write_pos_
       /\ rb'.size_ >= 0
       /\ ring_io'.consumed = ring_io.consumed + available(rb)]_vars

\* consume was asked for more than was readable while bytes were readable.
C18_Witness ==
  /\ ring_io.op = "consume"
  /\ ring_io.n > 1
  /\ available(rb) = 0
  /\ rb.read_pos_ = rb.write_pos_
  /\ rb.read_pos_ > 0
  /\ ring_io.consumed = ring_io.written
  /\ ring_io.consumed < ring_io.n

\* C19: when the ring buffer's writable region is zero the handler reads
\* nothing from the connection and writes nothing into the buffer, and,
\* unless it has been told to stop, tears the connection down: it
\* disconnects and goes through the reconnect path.
ReassemblyOverflow == get_write_ptr(rb) = 0
C19_OverflowTearsDown ==
  [][/\ (pc = "read" /\ pc' # "read" /\ ReassemblyOverflow)
          => (pc' = "failed" /\ rb' = rb /\ wire' = wire /\ cm' = cm)
     /\ (pc = "failed" /\ pc' # "failed" /\ ReassemblyOverflow /\ ~should_stop_)
          => /\ \E ok \in BOOLEAN :
                  cm' \in {reconnect(cm, ok),
                           transition_to_snapshot_request(reconnect(cm, ok))}
             /\ cm.sockfd_ >= 0 => cm'.open \subseteq ((cm.open \ {cm.sockfd_})
                                       \cup {cm'.sockfd_})
             /\ wire' = <<>>
             /\ rb' = rb]_vars

\* read_and_process has just found no room in the buffer on a live
\* connection that still has bytes in flight.
C19_Witness ==
  /\ pc = "failed"
  /\ ReassemblyOverflow
  /\ ~should_stop_
  /\ cm.sockfd_ >= 0
  /\ Len(wire) > 0

\* C20: across process_sequence calls with no reset() between them the
\* tracker's last sequence number never decreases: it is never below one it
\* has held since the last reset, and an input at or below it leaves it
\* unchanged.
ProcessSequenceCalled ==
  /\ tracker_io'.op = "process_sequence"
  /\ <<tracker, tracker_io>>' # <<tracker, tracker_io>>
C20_LastSeqMonotone ==
  [][ProcessSequenceCalled =>
       /\ has_received_message(tracker')
            => tracker'.last_sequence_ >= tracker_io.high
       /\ (has_received_message(tracker)
             /\ tracker_io'.sequence <= tracker.last_sequence_)
            => tracker'.last_sequence_ = tracker.last_sequence_]_vars

\* C21: the gap counter grows by exactly one for an input above
\* last_seq + 1, whatever the size of the gap, and last_seq then reports that
\* input; first, in-order, duplicate and old inputs leave the counter as it
\* was.
IsGapInput(t, sequence) ==
  has_received_message(t) /\ sequence > t.last_sequence_ + 1
C21_GapCounter ==
  [][ProcessSequenceCalled =>
       IF IsGapInput(tracker, tracker_io'.sequence)
       THEN /\ tracker'.gaps_detected_ = tracker.gaps_detected_ + 1
            /\ last_sequence(tracker') = <<tracker_io'.sequence>>
       ELSE tracker'.gaps_detected_ = tracker.gaps_detected_]_vars

\* C22: reset() leaves the tracker with no last sequence number and with the
\* gap counter it had; the call of process_sequence that follows a reset is
\* accepted as a first message for every input value and counts no gap.
ResetCalled ==
  /\ tracker_io'.op = "reset"
  /\ <<tracker, tracker_io>>' # <<tracker, tracker_io>>
C22_ResetKeepsGapCounter ==
  [][/\ ResetCalled =>
          /\ last_sequence(tracker') = <<>>
          /\ ~has_received_message(tracker')
          /\ tracker'.gaps_detected_ = tracker.gaps_detected_
     /\ (ProcessSequenceCalled /\ tracker_io.op = "reset") =>
          /\ tracker_io'.result
          /\ tracker'.last_sequence_ = tracker_io'.sequence
          /\ tracker'.gaps_detected_ = tracker.gaps_detected_]_vars

\* A tracker that had counted a gap and stood at a higher number was reset
\* and has then accepted a lower input as its first.
C22_Witness ==
  /\ tracker_io.op = "process_sequence"
  /\ tracker_io.prev = "reset"
  /\ tracker_io.result
  /\ tracker.gaps_detected_ >= 1
  /\ tracker.last_sequence_ = 0

\* C23: once process_sequence has accepted v (as first, in-order or gap
\* input), last_sequence() reports v and has_received_message() is true, for
\* every value v of the sequence number's width.
IsAcceptedInput(t, sequence) ==
  ~has_received_message(t) \/ sequence >= t.last_sequence_ + 1
C23_SentinelNeverObservable ==
  [][(ProcessSequenceCalled /\ IsAcceptedInput(tracker, tracker_io'.sequence))
       => /\ last_sequence(tracker') = <<tracker_io'.sequence>>
          /\ has_received_message(tracker')]_vars

\* C24: the gap tracker's ranges are the sequence numbers from the first
\* received one up to last_sequence() that have not been received, as sorted,
\* disjoint, maximal runs [start, end].
MissingSequences ==
  {x \in gap_io.first_received..gap_tracker_.last_sequence_ :
     x \notin gap_io.received}
\* The maximal runs of consecutive numbers in S.
MaximalRuns(S) ==
  {r \in S \X S :
     /\ r[1] <= r[2]
     /\ \A x \in r[1]..r[2] : x \in S
     /\ (r[1] - 1) \notin S
     /\ (r[2] + 1) \notin S}
IsSortedRangesOf(ranges, S) ==
  /\ {ranges[i] : i \in 1..Len(ranges)} = MaximalRuns(S)
  /\ \A i \in 1..(Len(ranges) - 1) : ranges[i][2] < ranges[i + 1][1]
C24_GapRangesAreComplement ==
  gap_io.first_received # -1 =>
    IsSortedRangesOf(get_gap_ranges(gap_tracker_), MissingSequences)

\* C25: one invocation of the gap scan sends at most 5 retransmit requests,
\* however many gap ranges are outstanding.
C25_AtMostFiveRequestsPerCycle ==
  udp_handler.requests_sent <= 5

\* C27: the k-th consecutive reconnect attempt since the last successful
\* connect sleeps min(2^(k-1), max_backoff) seconds: 1 s at first, doubled
\* by each attempt, never above max_backoff, and 1 s again after a
\* successful connect.
C27_ExponentialBackoff ==
  /\ reconnect_sleeps(cm) = Min(2 ^ cm.reconnect_attempts_, max_backoff_)
  /\ reconnect_sleeps(cm) <= max_backoff_
  /\ reconnect(cm, FALSE).reconnect_attempts_ = cm.reconnect_attempts_ + 1
  /\ reconnect_sleeps(reconnect(cm, FALSE))
       = Min(2 * reconnect_sleeps(cm), max_backoff_)
  /\ reconnect(cm, TRUE).reconnect_attempts_ = 0
  /\ reconnect_sleeps(reconnect(cm, TRUE)) = 1
  /\ is_connected(cm) => reconnect_sleeps(cm) = 1

\* Six attempts in a row have failed: the sixth slept max_backoff, less than
\* 2^5 seconds, and the next will sleep max_backoff again.
C27_Witness ==
  /\ cm.reconnect_attempts_ = 6
  /\ cm.state_ = DISCONNECTED
  /\ reconnect_sleeps(cm) = max_backoff_
  /\ 2 ^ (cm.reconnect_attempts_ - 1) > max_backoff_

\* C26: a failed reconnect does not end the run loop.  After a failed
\* read_and_process the handler, unless stopped, calls reconnect() and goes
\* back to the head of its loop whether or not the call succeeded.  While
\* the manager is disconnected inside the loop and stop() has not been
\* called, the handler neither leaves the loop nor reads or processes
\* anything: each pass ends in another call of reconnect(), at the loop
\* head once the heartbeat timeout has passed and else after
\* read_and_process has failed.
InRunLoop == pc \in {"loop", "snapreq", "read", "failed"}
ReconnectInvoked == \E ok \in BOOLEAN : cm' = try_reconnect(Members, ok).cm
C26_FailedReconnectIsRetried ==
  [][/\ (pc = "failed" /\ ~should_stop_ /\ pc' # pc) =>
          pc' = "loop" /\ ReconnectInvoked
     /\ (InRunLoop /\ cm.state_ = DISCONNECTED /\ ~should_stop_ /\ pc' # pc) =>
          CASE pc = "loop" -> \/ pc' = "snapreq" /\ cm' = cm
                              \/ pc' \in {"loop", "snapreq"} /\ ReconnectInvoked
            [] pc = "snapreq" -> pc' = "read" /\ cm' = cm
            [] pc = "read" -> pc' = "failed" /\ cm' = cm
            [] pc = "failed" -> pc' = "loop" /\ ReconnectInvoked]_vars

\* Two reconnects in a row have failed and the handler is back at the head
\* of its loop, not stopped.
C26_Witness ==
  /\ pc = "loop"
  /\ cm.state_ = DISCONNECTED
  /\ cm.reconnect_attempts_ >= 2
  /\ ~should_stop_

\* C28 as stated: once heartbeat_timeout_ seconds have passed without a
\* complete frame, is_heartbeat_timeout() is true, and in a handler that
\* has connected it stays true until process_messages extracts the next
\* complete frame.
FrameExtracted == pc = "process" /\ FrameReady /\ rb' # rb
C28_TimeoutLastsUntilNextFrame ==
  [][(pc # "start" /\ is_heartbeat_timeout(cm) /\ ~FrameExtracted) =>
       is_heartbeat_timeout(cm')]_vars

\* C28: when heartbeat_timeout_ seconds have passed in which neither a
\* complete frame was extracted nor a connection established,
\* is_heartbeat_timeout() is true; the pass of run()'s loop that starts in
\* that state calls reconnect() and reads nothing before it, and goes on to
\* the snapshot request and the read only over a new connection whose
\* timer was restarted; a frame that is complete in the buffer when the
\* timeout has passed is still extracted and dispatched, and restarts the
\* timer.
TimedOut == cm.last_message_age >= heartbeat_timeout_
C28_HeartbeatTimeoutReconnects ==
  [][/\ TimedOut => is_heartbeat_timeout(cm)
     /\ (pc = "loop" /\ ~should_stop_ /\ TimedOut /\ <<pc, cm>>' # <<pc, cm>>) =>
          /\ ReconnectInvoked
          /\ rb' = rb
          /\ \/ pc' = "loop" /\ cm'.state_ = DISCONNECTED
             \/ pc' = "snapreq" /\ cm'.state_ = SNAPSHOT_REQUEST
                                /\ ~is_heartbeat_timeout(cm')
     /\ (pc = "read" /\ pc' = "process") => rb' # rb
     /\ (pc = "process" /\ FrameReady /\ TimedOut /\ <<pc, rb>>' # <<pc, rb>>) =>
          /\ rb' = consume(rb, HEADER_SIZE + CurHeader.length)
          /\ pc' \in {"process", "crashed"}
          /\ cm'.last_message_age = 0]_vars

\* Frames were delivered on this connection, then none for
\* heartbeat_timeout_ seconds, and the handler is at the head of its loop.
C28_Witness ==
  /\ pc = "loop"
  /\ ~should_stop_
  /\ is_connected(cm)
  /\ Len(delivered) >= 1
  /\ TimedOut

\* C29: after any sequence of clear, load_snapshot and apply_update calls,
\* with any side, price and quantity (zero and negative included), no level
\* of either side of the order book has quantity zero.
C29_NoZeroQuantityLevel ==
  /\ \A p \in DOMAIN book.bids_ : book.bids_[p] # 0
  /\ \A p \in DOMAIN book.asks_ : book.asks_[p] # 0

\* apply_update with quantity zero has just removed a level, and the book
\* still holds levels on both sides.
C29_Witness ==
  /\ book_io.op = "apply_update"
  /\ book_io.quantity = 0
  /\ book_io.had_level
  /\ DOMAIN book.bids_ # {}
  /\ DOMAIN book.asks_ # {}

\* C30: in every book state get_best_bid returns true exactly when there is
\* a bid level, and then the price and quantity of the bid level of maximum
\* price; get_best_ask returns true exactly when there is an ask level, and
\* then the price and quantity of the ask level of minimum price.
C30_BestBidAsk ==
  LET bid == get_best_bid(book)
      ask == get_best_ask(book)
  IN /\ bid.returns <=> DOMAIN book.bids_ # {}
     /\ bid.returns =>
          /\ bid.price_out \in DOMAIN book.bids_
          /\ \A p \in DOMAIN book.bids_ : p <= bid.price_out
          /\ bid.quantity_out = book.bids_[bid.price_out]
     /\ ask.returns <=> DOMAIN book.asks_ # {}
     /\ ask.returns =>
          /\ ask.price_out \in DOMAIN book.asks_
          /\ \A p \in DOMAIN book.asks_ : ask.price_out <= p
          /\ ask.quantity_out = book.asks_[ask.price_out]

\* Both sides hold several levels of different quantities, one of them
\* just overwritten by apply_update.
C30_Witness ==
  /\ book_io.op = "apply_update"
  /\ book_io.quantity > 0
  /\ book_io.had_level
  /\ bid_depth(book) >= 2
  /\ ask_depth(book) >= 2
  /\ get_best_bid(book).quantity_out # book.bids_[begin(book.bids_)]
  /\ get_best_ask(book).quantity_out # book.asks_[rbegin(book.asks_)]

\* C31: after load_snapshot(bids, asks) each side of the book holds exactly
\* the prices of the input levels of that side whose quantity is greater
\* than zero, each with the quantity of its (last) such input level, and
\* nothing that was in the book before the call.
PositiveLevels(levels) == {i \in 1..Len(levels) : levels[i].quantity > 0}
HoldsExactly(m, levels) ==
  /\ DOMAIN m = {levels[i].price : i \in PositiveLevels(levels)}
  /\ \A p \in DOMAIN m :
       \E i \in PositiveLevels(levels) :
         /\ levels[i].price = p
         /\ levels[i].quantity = m[p]
         /\ \A j \in PositiveLevels(levels) : levels[j].price = p => j <= i
C31_LoadSnapshotExact ==
  book_io.op = "load_snapshot" =>
    /\ HoldsExactly(book.bids_, book_io.bids)
    /\ HoldsExactly(book.asks_, book_io.asks)

\* load_snapshot was called on a book that held levels; its one input level
\* had quantity zero, so the book is empty now.
C31_Witness ==
  /\ book_io.op = "load_snapshot"
  /\ book_io.had_level
  /\ Len(book_io.bids) + Len(book_io.asks) >= 1
  /\ DOMAIN book.bids_ = {}
  /\ DOMAIN book.asks_ = {}

\* C32: an ORDER_BOOK_UPDATE whose side field is neither 0 nor 1 is rejected
\* by the handler: processing it changes no level on either side of the
\* order book.
CurPayload ==
  SubSeq(peek_bytes(rb, HEADER_SIZE + CurHeader.length), HEADER_SIZE + 1,
         HEADER_SIZE + CurHeader.length)
InvalidSideUpdateReady ==
  /\ pc = "process"
  /\ FrameReady
  /\ CurHeader.type = MessageType_ORDER_BOOK_UPDATE
  /\ CurHeader.length = UpdatePayloadSize
  /\ deserialize_order_book_update(CurPayload, 0).side \notin {0, 1}
C32_InvalidSideRejected ==
  [][InvalidSideUpdateReady => book' = book]_vars

\* C33: after a successful reconnect the reassembly buffer holds no bytes
\* received on the previous connection, so that the first frame decoded
\* afterwards begins at the first byte of the new connection.
C33_BufferEmptyAfterReconnect ==
  [][ReconnectSucceeds => available(rb') = 0]_vars

\* C36: when the handler has torn a connection down because the reassembly
\* buffer had no writable space, the buffer has writable space again once
\* the reconnect has succeeded.
C36_WritableAfterOverflowReconnect ==
  [][(pc = "failed" /\ ReassemblyOverflow /\ ReconnectSucceeds) =>
       get_write_ptr(rb') > 0]_vars

\* C34: when FeedHandler::stop() or wait() has returned, the queue is empty
\* and the processor has processed as many ticks as the reader has counted
\* as parsed.
C34_NothingLostAtShutdown ==
  feed_handler.at = "done" =>
    /\ empty(queue_)
    /\ processor_.messages_processed_ = binary_reader_.messages_parsed_

\* The ticks the consumers have processed, as a bag over tick numbers.
SpmcTimesProcessed(m) ==
  Cardinality({<<c, i>> \in Consumers \X (1..MaxSpmcFrames) :
                 /\ i <= Len(spmc.consumer[c].seen)
                 /\ spmc.consumer[c].seen[i] = m})

SpmcAllExited ==
  /\ spmc.reader.at = "exit"
  /\ \A c \in Consumers : spmc.consumer[c].at = "exit"

C38_GapsDetectedIsTrackerCount ==
  stats_.gaps_detected = tracker.gaps_detected_

\* C39: in the UDP feed handler the statistic gaps_detected never decreases
\* from one step to the next and always equals the number of missing
\* sequence numbers the gap tracker has recorded (total_gaps_detected).
C39_UdpGapsDetectedIsTotalGaps ==
  [][/\ udp_handler'.stats_.gaps_detected >= udp_handler.stats_.gaps_detected
     /\ udp_handler'.stats_.gaps_detected = gap_tracker_'.total_gaps_]_vars

\* C40: on one connection the snapshot handler has at most one snapshot
\* request accepted by send(); a request is accepted only in
\* SNAPSHOT_REQUEST (never in SNAPSHOT_REPLAY or INCREMENTAL) and only
\* while no earlier request of the connection was accepted.
C40_OneSnapshotRequestPerEpoch ==
  [][/\ cm'.requests_on_socket <= 1
     /\ cm'.requests_on_socket > cm.requests_on_socket =>
          /\ cm.state_ = SNAPSHOT_REQUEST
          /\ ~cm.snapshot_requested_
          /\ cm.requests_on_socket = 0]_vars

\* After a reconnect the request was sent once more and the snapshot of the
\* new connection has been replayed.
C40_Witness ==
  /\ stats_.reconnections >= 1
  /\ cm.state_ = INCREMENTAL
  /\ cm.requests_on_socket = 1

====
